---------------------------- MODULE Spec2Model ----------------------------
(***************************************************************************)
(* The authenticated chat-turn request pipeline of the Baymax worker.      *)
(*                                                                         *)
(* Two worker variants are modelled:                                       *)
(*   "owner" : worker/src/index.ts, the worker that takes a client-chosen  *)
(*             sessionId and keeps a <sessionId>_owner tag;                *)
(*   "user"  : unnamed/part_001, the worker with one session per user,     *)
(*             keyed session_<username>.                                   *)
(* A request is handled by a process p that moves from one await of the    *)
(* handler to the next; the two key-value namespaces are the shared state. *)
(***************************************************************************)
EXTENDS Integers, Sequences, FiniteSets, TLC

VARIABLES
    variant,    \* which worker is deployed: "owner" or "user"
    users,      \* env.BAYMAX_USERS: key -> value record
    hist,       \* env.CHAT_HISTORY_BAYMAX_PROXY: key -> value record
    pc,         \* per process: where in the handler the request is
    rq,         \* per process: the request and the handler's locals
    resp,       \* per process: the response returned
    ops,        \* per process: the external calls made so far (in order)
    nreq,       \* number of requests received so far
    obs         \* observer, not worker state: per username the failed
                \* /login answers since the last success or key expiry,
                \* the sessions whose record once began with the
                \* default system message, the usernames whose
                \* session was cleared and not written since, the
                \* clock (seconds), and per username the time of the
                \* latest counted /login failure and the number of
                \* counted failures in a row

vars == <<variant, users, hist, pc, rq, resp, ops, nreq, obs>>

----------------------------------------------------------------------------
(* Program constants *)

MAX_HISTORY == 20
TOKEN_REFRESH_THRESHOLD == 60
TOKEN_EXPIRY == 3600
LOGIN_ATTEMPT_LIMIT == 5
JSON_BODY_LIMIT == 65536
USER_MESSAGE_LIMIT == 20000
LOGIN_BLOCK_TTL == 900
HISTORY_TTL == 2592000

(* Bounds of the model *)

NumProcs == 2
MaxTurns == 12          \* requests of one long conversation
MaxRequests == 2        \* requests of a run of the full handler
MaxChats == 3           \* chat turns of a run under every upstream outcome
MaxLogins == 7          \* requests of a run of the account routes
MaxRace == 3            \* chat turns of a run of overlapping requests
MaxClears == 4          \* requests of a run of chat turns and clears
MaxStored == 21         \* non-system messages of a record found in the store
MaxTrimTurns == 2       \* chat turns on a record found in the store
MaxReplies == 2         \* chat turns of a run over the model's reply shapes
MaxSignups == 3         \* requests of a run of signups
MaxOwnerTurns == 3      \* chat turns of a run of two users on one session
MaxOwnerTicks == 2      \* half history lifetimes that pass in such a run
MaxLoginRace == 6       \* logins of a run of overlapping logins
MaxSignupRace == 3      \* signups of a run of overlapping signups
MaxConsecutive == 9     \* logins of a run of failures and successes
MaxWindowLogins == 6    \* logins of a run in which time passes
MaxWindowTicks == 9     \* steps of the clock in such a run
TickSeconds == 300      \* seconds of one step of the clock
MaxChecks == 2          \* requests of a run over the validation chain
MaxLive == 2            \* chat turns of a run whose upstream may stall

Procs == 1..NumProcs

Variants == {"owner", "user"}

----------------------------------------------------------------------------
(* Keys.  A key is a sequence of pieces, so that the template strings of   *)
(* the source are concatenations and two templates can meet in one key.    *)

Amy == <<"amy">>
Bob == <<"bob">>
Usernames == {Amy, Bob}

TokenKey(u) == u \o <<"_token">>
AttemptsKey(u) == u \o <<"_login_attempts">>
BlockKey(u) == u \o <<"_login_block">>
OwnerKey(sid) == sid \o <<"_owner">>
ListKey(u) == u \o <<"_histories">>
UserSessionId(u) == <<"session_">> \o u

NoName == <<>>

(* Usernames that match the pattern and are spelt like the auxiliary keys  *)
(* of amy: 'amy_token' and 'amy_login_attempts'                            *)
SignupNames == {Amy, TokenKey(Amy), AttemptsKey(Amy)}

(* Values of the two namespaces, one record shape each so that any two     *)
(* values compare.                                                          *)

(* ttl: whether the value was put with an expirationTtl; left: the seconds *)
(* until the key expires, 0 for a key that does not expire.                *)

Absent == [kind |-> "absent", n |-> 0, who |-> NoName, ttl |-> FALSE, left |-> 0]
HashOf(pw) == [kind |-> "hash", n |-> pw, who |-> NoName, ttl |-> FALSE, left |-> 0]
TokenFor(u, serial) ==
    [kind |-> "token", n |-> serial, who |-> u, ttl |-> FALSE, left |-> 0]
Count(c) == [kind |-> "count", n |-> c, who |-> NoName, ttl |-> TRUE, left |-> 0]
Flag == [kind |-> "flag", n |-> 1, who |-> NoName, ttl |-> TRUE, left |-> 0]

NoValue == [kind |-> "absent", msgs |-> <<>>, who |-> NoName, ids |-> {}, left |-> 0]
HistoryValue(h) ==
    [kind |-> "history", msgs |-> h, who |-> NoName, ids |-> {}, left |-> 0]
OwnerValue(u) ==
    [kind |-> "owner", msgs |-> <<>>, who |-> u, ids |-> {}, left |-> 0]
(* Observer: marks a request that has not read its history yet *)
NotRead == [kind |-> "unread", msgs |-> <<>>, who |-> NoName, ids |-> {}, left |-> 0]
ListValue(s) ==
    [kind |-> "list", msgs |-> <<>>, who |-> NoName, ids |-> s, left |-> 0]

(* The text stored under a key, without the key's expiry *)
Payload(v) == [v EXCEPT !.left = 0]

(* KVNamespace.get / put / delete *)

KvGet(kv, k, none) == IF k \in DOMAIN kv THEN kv[k] ELSE none
KvPutMerging(kv, k, v) ==
    [x \in (DOMAIN kv) \cup {k} |->
        IF x # k THEN kv[x]
        ELSE IF k \in DOMAIN kv /\ kv[k].kind = "history" /\ v.kind = "history"
        THEN LET old == kv[k].msgs
                 IsNew(m) == \A i \in DOMAIN old : old[i] # m
             IN  [v EXCEPT !.msgs = old \o SelectSeq(v.msgs, IsNew)]
        ELSE v]

KvPut(kv, k, v) == [x \in (DOMAIN kv) \cup {k} |-> IF x = k THEN v ELSE kv[x]]
KvDeleteNothing(kv, k) == kv

KvDelete(kv, k) == [x \in (DOMAIN kv) \ {k} |-> kv[x]]

(* put(key, value, { expirationTtl }): the key expires expirationTtl       *)
(* seconds after this put, whatever its expiry was before                  *)
KvPutKeepingExpiry(kv, k, v, expirationTtl) ==
    KvPut(kv, k, [v EXCEPT !.left = IF k \in DOMAIN kv THEN kv[k].left
                                    ELSE expirationTtl])

KvPutTtl(kv, k, v, expirationTtl) == KvPut(kv, k, [v EXCEPT !.left = expirationTtl])

(* The store d seconds later: the keys whose expiry has come are gone *)
Aged(kv, d) ==
    LET live == {k \in DOMAIN kv : kv[k].left = 0 \/ kv[k].left > d}
    IN  [k \in live |->
            IF kv[k].left = 0 THEN kv[k] ELSE [kv[k] EXCEPT !.left = @ - d]]

----------------------------------------------------------------------------
(* Messages *)

Msg(role, tag, n) == [role |-> role, content |-> [tag |-> tag, n |-> n]]

DefaultSystem == Msg("system", "baymax", 0)
ContextMessage(c) == Msg("system", "context", c)
UserMsg(n) == Msg("user", "msg", n)

IsSystem(m) == m.role = "system"

RECURSIVE Filter(_, _)
Filter(s, keepSystem) ==
    IF s = <<>> THEN <<>>
    ELSE IF IsSystem(Head(s)) = keepSystem
         THEN <<Head(s)>> \o Filter(Tail(s), keepSystem)
         ELSE Filter(Tail(s), keepSystem)

NonSystem(s) == Filter(s, FALSE)
Systems(s) == Filter(s, TRUE)

(* Array.prototype.slice(-k) for k >= 0.  slice(-0) is slice(0): the whole *)
(* array.                                                                  *)
LastK(s, k) ==
    IF k = 0 \/ Len(s) <= k THEN s
    ELSE SubSeq(s, Len(s) - k + 1, Len(s))

(* history.push(user); find system; filter non-system; slice; rebuild *)
AppendAndTrim(history, m) ==
    LET pushed == Append(history, m)
        sys == Systems(pushed)
        nonSystem == LastK(NonSystem(pushed),
                           MAX_HISTORY - (IF sys # <<>> THEN 1 ELSE 0))
    IN  IF sys # <<>> THEN <<Head(sys)>> \o nonSystem ELSE nonSystem

(* if (history.length > MAX_HISTORY) { ... } before the put *)
TrimBeforePut(history) ==
    IF Len(history) > MAX_HISTORY
    THEN LET sys == Systems(history)
             recentMessages == LastK(history, MAX_HISTORY - 1)
         IN  IF sys # <<>> THEN <<Head(sys)>> \o NonSystem(recentMessages)
             ELSE recentMessages
    ELSE history

----------------------------------------------------------------------------
(* Requests *)

AllowedOrigin == "https://baymax.onslaught2342.qzz.io"
DevOrigin == "http://localhost:5173"
OtherOrigin == "https://other.example"

(* ALLOWED_ORIGINS.includes(origin), and in the per-user worker also any   *)
(* origin that contains 'localhost' or 'lovableproject.com'                *)
OriginAllowed(v, origin) ==
    \/ origin = AllowedOrigin
    \/ v = "user" /\ origin = DevOrigin

(* The Authorization header after 'Bearer ' was cut off, or NoToken.       *)
(* sig: whether the signature verifies under ISSUER_SECRET; who: the       *)
(* payload's username (NoName if the payload has none); rem: seconds left  *)
(* to exp when the request is handled.                                     *)
NoToken == [present |-> FALSE, sig |-> "none", who |-> NoName, rem |-> 0]
Token(sig, who, rem) == [present |-> TRUE, sig |-> sig, who |-> who, rem |-> rem]

(* jwt.verify + the payload check: the username, or NoName when verifyJWT  *)
(* throws its 401 Response                                                 *)
verifyIgnoringExpiry(t) ==
    IF t.sig = "ok" /\ t.who # NoName THEN t.who ELSE NoName

verifyJWT(t) ==
    IF t.sig = "ok" /\ t.rem > 0 /\ t.who # NoName THEN t.who ELSE NoName

(* Date.now() / 1000 + TOKEN_REFRESH_THRESHOLD > decoded.exp *)
NeedsRefreshAtThreshold(t) == TOKEN_REFRESH_THRESHOLD >= t.rem

NeedsRefresh(t) == TOKEN_REFRESH_THRESHOLD > t.rem

(* The userMessage field: kind "text" with the length of its trimmed text, *)
(* "blank" (a string that trims to ''), "nonstring", or "absent".          *)
MsgField(kind, len) == [kind |-> kind, len |-> len]
(* The sessionId field: "ok" with the id, "absent", "nonstring", "long".   *)
SidField(kind, id) == [kind |-> kind, id |-> id]

(* A request body: the declared Content-Length (0: no header), the         *)
(* measured length of the text, and what JSON.parse makes of it.           *)
Body(clen, size, shape, msg, sid, user, pw) ==
    [clen |-> clen, size |-> size, shape |-> shape, msg |-> msg, sid |-> sid,
     user |-> user, pw |-> pw]

NoMsg == MsgField("absent", 0)
NoSid == SidField("absent", NoName)
EmptyBody == Body(0, 0, "empty", NoMsg, NoSid, NoName, 0)

Request(method, path, origin, ctype, token, body) ==
    [method |-> method, path |-> path, origin |-> origin, ctype |-> ctype,
     token |-> token, body |-> body]

(* parseJsonLimited(request).catch(() => null): "object" when the body is  *)
(* within the limit and parses to a truthy value, "null" otherwise.        *)
parseJsonLimited(b) ==
    IF b.clen > JSON_BODY_LIMIT THEN "throw"
    ELSE IF b.size > JSON_BODY_LIMIT THEN "throw"
    ELSE IF b.shape = "object" THEN "object"
    ELSE "null"

BodyOrNull(b) == IF parseJsonLimited(b) = "object" THEN "object" ELSE "null"

(* isValidUsername / isValidPassword: the model's usernames all match the  *)
(* pattern; NoName stands for a missing or malformed one, 0 for a missing  *)
(* or malformed password.                                                  *)
isValidUsername(u) == u # NoName
isValidPassword(pw) == pw > 0

----------------------------------------------------------------------------
(* Responses and the handler's locals *)

NoContent == [tag |-> "", n |-> 0]

NoResp ==
    [status |-> 0, error |-> "", refreshToken |-> Absent, upstreamStatus |-> 0,
     context |-> 0, historyLength |-> 0, refined |-> NoContent,
     token |-> Absent, username |-> NoName, histories |-> {}, messages |-> <<>>]

(* jsonResponse({ error }, status) *)
ErrorResp(status, error) == [NoResp EXCEPT !.status = status, !.error = error]
(* jsonResponse({ error, refreshToken }, status) *)
ErrorRespRefresh(status, error, refreshToken) ==
    [NoResp EXCEPT !.status = status, !.error = error,
                   !.refreshToken = refreshToken]

Op(name, key) == [op |-> name, key |-> key]

IdleRq ==
    [id |-> 0,
     req |-> Request("GET", "/", "", "", NoToken, EmptyBody),
     username |-> NoName,       \* the verified token's username
     refreshToken |-> Absent,   \* let refreshToken: string | null = null
     sessionId |-> NoName,
     history |-> <<>>,          \* let history
     upstream |-> <<>>,         \* groqPayload.messages
     context |-> 0,             \* let context = '' (0), else the result set
     histories |-> NoValue,     \* const histories (the session list)
     curAttempts |-> 0,
     pre |-> <<>>,              \* observer: the history store at receipt
     loaded |-> NotRead,        \* observer: the value historyRaw was read as
     clearedBefore |-> FALSE,   \* observer: obs.cleared held the username then
     registered |-> {},         \* observer: the usernames with a hash then
     failsBefore |-> 0,         \* observer: obs.fails of the username then
     searched |-> [kind |-> "", n |-> 0],   \* observer: what the search came to
     modelled |-> [kind |-> "", status |-> 0, shape |-> "",
                   data |-> [content |-> "absent", text |-> "absent",
                             reply |-> "absent"]]]   \* and the model call

(* What the synchronous code up to the next store or upstream call makes   *)
(* of a request: the place the handler waits at, or "done" and a response. *)
Goto(place) == [pc |-> place, resp |-> NoResp]
Done(r) == [pc |-> "done", resp |-> r]

(* userMessage.length > 20000 *)
TooLongAtLimit(len) == len >= USER_MESSAGE_LIMIT

TooLong(len) == len > USER_MESSAGE_LIMIT

(* const body = await parseJsonLimited(request).catch(() => null) and the  *)
(* checks of userMessage and sessionId that follow                         *)
ChatParseSidFirst(v, r, refreshToken) ==
    IF BodyOrNull(r.body) = "null"
    THEN Done(ErrorRespRefresh(400, "Invalid JSON", refreshToken))
    ELSE IF v = "owner" /\ r.body.sid.kind # "ok"
    THEN Done(ErrorRespRefresh(400, "Missing or invalid sessionId", refreshToken))
    ELSE IF r.body.msg.kind # "text"
    THEN Done(ErrorRespRefresh(400, "Missing userMessage", refreshToken))
    ELSE IF TooLong(r.body.msg.len)
    THEN Done(ErrorRespRefresh(413, "userMessage too long", refreshToken))
    ELSE IF v = "owner" THEN Goto("owner_get") ELSE Goto("hist_get")

ChatParse(v, r, refreshToken) ==
    IF BodyOrNull(r.body) = "null"
    THEN Done(ErrorRespRefresh(400, "Invalid JSON", refreshToken))
    ELSE IF r.body.msg.kind # "text"
    THEN Done(ErrorRespRefresh(400, "Missing userMessage", refreshToken))
    ELSE IF TooLong(r.body.msg.len)
    THEN Done(ErrorRespRefresh(413, "userMessage too long", refreshToken))
    ELSE IF v = "owner" /\ r.body.sid.kind # "ok"
    THEN Done(ErrorRespRefresh(400, "Missing or invalid sessionId", refreshToken))
    ELSE IF v = "owner" THEN Goto("owner_get") ELSE Goto("hist_get")

(* The bearer token of a protected route: 401 when it is missing or when   *)
(* verifyJWT throws, else what the route does next.                        *)
WithToken(r, missing, next) ==
    IF ~r.token.present THEN Done(ErrorResp(401, missing))
    ELSE IF verifyJWT(r.token) = NoName THEN Done(ErrorResp(401, "Unauthorized"))
    ELSE next

AccountParse(r, formatError, next) ==
    IF BodyOrNull(r.body) = "null" THEN Done(ErrorResp(400, "Invalid JSON"))
    ELSE IF ~isValidUsername(r.body.user) \/ ~isValidPassword(r.body.pw)
    THEN Done(ErrorResp(400, formatError))
    ELSE Goto(next)

HistoryRoute(v, r) ==
    IF v = "owner"
    THEN IF r.method = "GET" THEN Goto("list_get")
         ELSE IF r.method = "POST"
         THEN IF BodyOrNull(r.body) = "null" \/ r.body.sid.kind = "absent"
              THEN Done(ErrorResp(400, "Invalid JSON"))
              ELSE Goto("list_get")
         ELSE Done(ErrorResp(405, "Method not allowed"))
    ELSE IF r.method = "GET" THEN Goto("session_get")
         ELSE Done(ErrorResp(405, "Method not allowed"))

ClearRouteGetOnly(r) ==
    IF r.method = "GET" THEN Goto("clear_delete")
    ELSE Done(ErrorResp(405, "Method not allowed"))

ClearRoute(r) ==
    IF r.method = "POST" THEN Goto("clear_delete")
    ELSE Done(ErrorResp(405, "Method not allowed"))

ChatRoute(v, r, refreshToken) ==
    IF NeedsRefresh(r.token) THEN Goto("refresh_put")
    ELSE ChatParse(v, r, refreshToken)

(* fetch(request, env) from its first line to the first await of a store   *)
Route(v, r) ==
    IF r.method = "OPTIONS" THEN Done([NoResp EXCEPT !.status = 204])
    ELSE IF ~OriginAllowed(v, r.origin) THEN Done(ErrorResp(403, "Forbidden origin"))
    ELSE IF r.path = "/signup" /\ r.method = "POST"
    THEN AccountParse(r, "Invalid username or password format", "signup_get")
    ELSE IF r.path = "/login" /\ r.method = "POST"
    THEN AccountParse(r, "Username and password required", "login_block_get")
    ELSE IF r.path = "/verify"
    THEN WithToken(r, "Missing token",
                   Done([NoResp EXCEPT !.status = 200,
                                       !.username = verifyJWT(r.token)]))
    ELSE IF r.path = "/history"
    THEN WithToken(r, "Unauthorized: missing token", HistoryRoute(v, r))
    ELSE IF v = "user" /\ r.path = "/clear"
    THEN WithToken(r, "Unauthorized: missing token", ClearRoute(r))
    ELSE IF r.method # "POST" THEN Done(ErrorResp(405, "Only POST allowed"))
    ELSE WithToken(r, "Unauthorized: missing token",
                   ChatRoute(v, r, Absent))

(* createToken(username, env) for the request numbered id *)
createToken(u, id) == TokenFor(u, id)

(* The handler is entered: everything up to its first store access *)
Receive(p, r) ==
    /\ pc[p] \in {"idle", "done"}
    /\ LET id == nreq + 1
           out == Route(variant, r)
           u == IF out.pc = "done" THEN NoName
                ELSE IF out.pc \in {"signup_get", "login_block_get"}
                THEN r.body.user
                ELSE verifyJWT(r.token)
       IN  /\ nreq' = id
           /\ pc' = [pc EXCEPT ![p] = out.pc]
           /\ resp' = [resp EXCEPT ![p] = out.resp]
           /\ ops' = [ops EXCEPT ![p] = <<>>]
           /\ rq' = [rq EXCEPT ![p] =
                  [IdleRq EXCEPT
                     !.id = id, !.req = r, !.username = u, !.pre = hist,
                     !.failsBefore = IF u \in Usernames THEN obs.fails[u] ELSE 0,
                     !.clearedBefore = u \in obs.cleared,
                     !.registered =
                        {w \in Usernames \cup SignupNames :
                            KvGet(users, w, Absent).kind = "hash"},
                     !.refreshToken =
                        IF out.pc = "refresh_put" THEN createToken(u, id)
                        ELSE Absent]]
    /\ UNCHANGED <<variant, users, hist, obs>>

----------------------------------------------------------------------------
(* The chat turn *)

Finish(p, r) ==
    /\ pc' = [pc EXCEPT ![p] = "done"]
    /\ resp' = [resp EXCEPT ![p] = r]

Step(p, out) ==
    /\ pc' = [pc EXCEPT ![p] = out.pc]
    /\ resp' = [resp EXCEPT ![p] = out.resp]

Log(p, name, key) == ops' = [ops EXCEPT ![p] = Append(@, Op(name, key))]

(* await env.BAYMAX_USERS.put(`${username}_token`, refreshToken), then the *)
(* body is parsed                                                          *)
RefreshPut(p) ==
    /\ pc[p] = "refresh_put"
    /\ users' = KvPut(users, TokenKey(rq[p].username), rq[p].refreshToken)
    /\ Log(p, "users.put", TokenKey(rq[p].username))
    /\ Step(p, ChatParse(variant, rq[p].req, rq[p].refreshToken))
    /\ UNCHANGED <<variant, hist, rq, nreq, obs>>

(* owner && owner !== username *)
OwnedByNobody(owner, username) == FALSE

OwnedByOther(owner, username) ==
    owner.kind # "absent" /\ Payload(owner) # OwnerValue(username)

(* const owner = await env.CHAT_HISTORY_BAYMAX_PROXY.get(ownerKey) and the *)
(* ownership check                                                         *)
OwnerGet(p) ==
    /\ pc[p] = "owner_get"
    /\ LET sessionId == rq[p].req.body.sid.id
           owner == KvGet(hist, OwnerKey(sessionId), NoValue)
       IN  /\ Log(p, "hist.get", OwnerKey(sessionId))
           /\ rq' = [rq EXCEPT ![p].sessionId = sessionId]
           /\ IF OwnedByOther(owner, rq[p].username)
              THEN Finish(p, ErrorResp(403, "Unauthorized access to history"))
              ELSE IF owner.kind = "absent"
              THEN Step(p, Goto("owner_put"))
              ELSE Step(p, Goto("hist_get"))
    /\ UNCHANGED <<variant, users, hist, nreq, obs>>

(* if (!owner) await env.CHAT_HISTORY_BAYMAX_PROXY.put(ownerKey, username) *)
OwnerPut(p) ==
    /\ pc[p] = "owner_put"
    /\ hist' = KvPutTtl(hist, OwnerKey(rq[p].sessionId),
                        OwnerValue(rq[p].username), HISTORY_TTL)
    /\ Log(p, "hist.put", OwnerKey(rq[p].sessionId))
    /\ Step(p, Goto("hist_get"))
    /\ UNCHANGED <<variant, users, rq, nreq, obs>>

(* historyRaw ? JSON.parse(historyRaw) : [default system message]; in the  *)
(* per-user worker a parsed value that is no array is reset to the default *)
(* The result is <<ok, history>>; ok is FALSE when JSON.parse throws.      *)
ParseHistory(v, raw) ==
    CASE raw.kind = "absent" -> <<TRUE, <<DefaultSystem>>>>
      [] raw.kind = "history" -> <<TRUE, raw.msgs>>
      [] raw.kind = "list" ->
            <<TRUE, [i \in 1..Cardinality(raw.ids) |-> Msg("", "id", i)]>>
      [] OTHER -> <<FALSE, <<>>>>

(* history.push({ role: 'user', content: sanitizedInput }) and the trim    *)
OwnerWorkerPush(history, m) == AppendAndTrim(history, m)

(* The per-user worker's append of the user message *)
UserWorkerPush(history, m) == Append(history, m)

PushUserTwice(v, history, m) == Append(Append(history, m), m)

PushUser(v, history, m) ==
    IF v = "owner" THEN OwnerWorkerPush(history, m) ELSE UserWorkerPush(history, m)

(* const sessionId = body.sessionId in the owner-tag worker,               *)
(* `session_${username}` in the per-user worker                            *)
SessionIdOfBody(v, body, username) == body.sid.id

ChatSessionId(v, body, username) ==
    IF v = "owner" THEN body.sid.id ELSE UserSessionId(username)

(* const historyRaw = await env.CHAT_HISTORY_BAYMAX_PROXY.get(sessionId)   *)
(* up to the vector search                                                 *)
HistGet(p) ==
    /\ pc[p] = "hist_get"
    /\ LET sessionId == ChatSessionId(variant, rq[p].req.body, rq[p].username)
           historyRaw == KvGet(hist, sessionId, NoValue)
           parsed == ParseHistory(variant, historyRaw)
       IN  /\ Log(p, "hist.get", sessionId)
           /\ IF parsed[1]
              THEN /\ rq' = [rq EXCEPT
                        ![p].sessionId = sessionId,
                        ![p].loaded = historyRaw,
                        ![p].history = PushUser(variant, parsed[2], UserMsg(rq[p].id))]
                   /\ Step(p, Goto("search"))
              ELSE /\ rq' = [rq EXCEPT ![p].sessionId = sessionId,
                                       ![p].loaded = historyRaw]
                   /\ Finish(p, ErrorResp(500, "Unexpected token"))
    /\ UNCHANGED <<variant, users, hist, nreq, obs>>

(* What the vector-search call can come to.  "results" carries the id of  *)
(* a non-empty result list; every other kind leaves context = ''.          *)
SearchOutcome(kind, n) == [kind |-> kind, n |-> n]

SearchFailures ==
    {SearchOutcome(k, 0) : k \in {"network_error", "timeout", "not_ok",
                                  "bad_json", "no_results", "empty_results",
                                  "bad_results"}}

SearchOutcomes == SearchFailures \cup {SearchOutcome("results", 1)}

(* The try block around the vector search: context, or '' (0) *)
ContextOf(o) == IF o.kind = "results" THEN o.n ELSE 0

(* if (context) history.unshift({ role: 'system', content: ... }) *)
OwnerWorkerUnshift(history, c) ==
    IF c # 0 THEN <<ContextMessage(c)>> \o history ELSE history

(* The per-user worker: the context message goes to the model only *)
UserWorkerUpstream(history, c) ==
    IF c # 0 THEN <<ContextMessage(c)>> \o history ELSE history

SearchRetrying(p, o) ==
    /\ pc[p] = "search"
    /\ Log(p, "search", NoName)
    /\ rq' = [rq EXCEPT ![p].context = ContextOf(o), ![p].searched = o,
                         ![p].upstream = rq[p].history]
    /\ Step(p, Goto(IF o.kind = "results" THEN "model" ELSE "search"))
    /\ UNCHANGED <<variant, users, hist, nreq, obs>>

(* The vector search, up to the model call *)
Search(p, o) ==
    /\ pc[p] = "search"
    /\ Log(p, "search", NoName)
    /\ LET c == ContextOf(o)
           h == IF variant = "owner" THEN OwnerWorkerUnshift(rq[p].history, c)
                ELSE rq[p].history
           up == IF variant = "owner" THEN h
                 ELSE UserWorkerUpstream(rq[p].history, c)
       IN  rq' = [rq EXCEPT ![p].context = c, ![p].history = h,
                            ![p].upstream = up, ![p].searched = o]
    /\ Step(p, Goto("model"))
    /\ UNCHANGED <<variant, users, hist, nreq, obs>>

(* What the model call can come to: fetch throws (network error, or the    *)
(* abort of fetchWithTimeout), a non-OK status, or an OK response whose    *)
(* body has one of the reply shapes.                                       *)
(* The JSON of the model's OK response as far as the reply is read from   *)
(* it: choices[0].message.content, choices[0].text and reply, each         *)
(* "absent" (undefined or null), "string", "padded" (a string with white   *)
(* space around it), "blank" (white space only) or "number".               *)
ReplyData(content, text, reply) ==
    [content |-> content, text |-> text, reply |-> reply]

NoData == ReplyData("absent", "absent", "absent")

DataOf(shape) ==
    CASE shape = "content" -> ReplyData("string", "absent", "absent")
      [] shape = "text" -> ReplyData("absent", "string", "absent")
      [] shape = "reply" -> ReplyData("absent", "absent", "string")
      [] OTHER -> NoData

ModelOutcome(kind, status, shape) ==
    [kind |-> kind, status |-> status, shape |-> shape, data |-> DataOf(shape)]

ModelReply(d) == [kind |-> "ok", status |-> 200, shape |-> "data", data |-> d]

ModelThrows == {ModelOutcome("throw", 0, s) : s \in {"network_error", "timeout"}}
ModelErrors == {ModelOutcome("status", s, "") : s \in {429, 500}}
ModelReplies ==
    {ModelOutcome("ok", 200, s) : s \in {"content", "text", "reply", "none", "bad_json"}}
ModelOutcomes == ModelThrows \cup ModelErrors \cup ModelReplies

(* data?.choices?.[0]?.message?.content ?? data?.choices?.[0]?.text ??     *)
(* data.reply ?? 'Model returned no reply', trimmed                        *)
Placeholder == "Model returned no reply"

(* The text of a field of the given kind; String(5) of a number *)
TextOf(field, kind) ==
    CASE kind = "string" -> field
      [] kind = "padded" ->
            (CASE field = "content" -> " content "
               [] field = "text" -> " text "
               [] OTHER -> " reply ")
      [] kind = "blank" -> " "
      [] OTHER -> "5"

(* String.prototype.trim on the texts of the model *)
TrimNothing(s) == s

Trim(s) ==
    CASE s = " content " -> "content"
      [] s = " text " -> "text"
      [] s = " reply " -> "reply"
      [] s = " " -> ""
      [] OTHER -> s

RawReplyReplyFirst(d) ==
    IF d.reply \in {"string", "padded", "blank"} THEN TextOf("reply", d.reply)
    ELSE IF d.content # "absent" THEN TextOf("content", d.content)
    ELSE IF d.text # "absent" THEN TextOf("text", d.text)
    ELSE Placeholder

RawReply(d) ==
    IF d.content # "absent" THEN TextOf("content", d.content)
    ELSE IF d.text # "absent" THEN TextOf("text", d.text)
    ELSE IF d.reply \in {"string", "padded", "blank"} THEN TextOf("reply", d.reply)
    ELSE Placeholder

RefinedReply(o, id) ==
    LET refinedReply == Trim(RawReply(o.data))
    IN  [tag |-> refinedReply, n |-> IF refinedReply = Placeholder THEN 0 ELSE id]

(* history.push({ role: 'assistant', content: refinedReply }); the         *)
(* per-user worker then trims                                              *)
PushAssistant(v, history, m) ==
    IF v = "owner" THEN Append(history, m) ELSE TrimBeforePut(Append(history, m))

ModelErrorRespNoStatus(o, refreshToken) ==
    [NoResp EXCEPT !.status = 502, !.error = "Upstream model error",
                   !.refreshToken = refreshToken]

ModelErrorResp(o, refreshToken) ==
    [NoResp EXCEPT !.status = 502, !.error = "Upstream model error",
                   !.upstreamStatus = o.status, !.refreshToken = refreshToken]

(* catch (err) { ... jsonResponse({ error: err.message ?? ... }, 500) } *)
CaughtResp(message) == ErrorResp(500, message)

ModelCallIgnoringStatus(p, o) ==
    /\ pc[p] = "model"
    /\ Log(p, "model", NoName)
    /\ IF o.kind = "throw"
       THEN /\ Finish(p, CaughtResp(o.shape))
            /\ rq' = [rq EXCEPT ![p].modelled = o]
       ELSE LET refined == RefinedReply(o, rq[p].id)
                m == [role |-> "assistant", content |-> refined]
            IN  /\ rq' = [rq EXCEPT ![p].history = PushAssistant(variant, @, m),
                                     ![p].modelled = o]
                /\ Step(p, [pc |-> "hist_put",
                            resp |-> [NoResp EXCEPT !.refined = refined]])
    /\ UNCHANGED <<variant, users, hist, nreq, obs>>

(* The model call, up to the write of the history *)
ModelCall(p, o) ==
    /\ pc[p] = "model"
    /\ Log(p, "model", NoName)
    /\ CASE o.kind = "throw" ->
              /\ Finish(p, CaughtResp(o.shape))
              /\ rq' = [rq EXCEPT ![p].modelled = o]
         [] o.kind = "status" ->
              /\ Finish(p, ModelErrorResp(o, rq[p].refreshToken))
              /\ rq' = [rq EXCEPT ![p].modelled = o]
         [] OTHER ->
              LET refined == RefinedReply(o, rq[p].id)
                  m == [role |-> "assistant", content |-> refined]
              IN  /\ rq' = [rq EXCEPT ![p].history = PushAssistant(variant, @, m),
                                       ![p].modelled = o]
                  /\ Step(p, [pc |-> "hist_put",
                              resp |-> [NoResp EXCEPT !.refined = refined]])
    /\ UNCHANGED <<variant, users, hist, nreq, obs>>

(* fetchWithTimeout clears its timer in the finally that runs when fetch   *)
(* resolves, that is when the response headers have arrived: nothing       *)
(* aborts the reading of the body after that.  The vector API answers OK   *)
(* and never ends its body: await vectorRes.json() does not settle.        *)
SearchBodyStalls(p) ==
    /\ pc[p] = "search"
    /\ Log(p, "search", NoName)
    /\ rq' = [rq EXCEPT ![p].searched = SearchOutcome("stalled_body", 0)]
    /\ Step(p, Goto("search_body"))
    /\ UNCHANGED <<variant, users, hist, nreq, obs>>

(* The model API sends its status line and headers and never ends its      *)
(* body: await groqRes.json(), or groqRes.text() on a non-OK status, does  *)
(* not settle.                                                             *)
ModelBodyStalls(p, status) ==
    /\ pc[p] = "model"
    /\ Log(p, "model", NoName)
    /\ rq' = [rq EXCEPT ![p].modelled =
                 [ModelOutcome("stalled_body", status, "") EXCEPT !.data = NoData]]
    /\ Step(p, Goto("model_body"))
    /\ UNCHANGED <<variant, users, hist, nreq, obs>>

(* await env.CHAT_HISTORY_BAYMAX_PROXY.put(sessionId, JSON.stringify(history)) *)
(* and the 200 response                                                    *)
HistPut(p) ==
    /\ pc[p] = "hist_put"
    /\ hist' = KvPutTtl(hist, rq[p].sessionId, HistoryValue(rq[p].history),
                        HISTORY_TTL)
    /\ Log(p, "hist.put", rq[p].sessionId)
    /\ Finish(p, [resp[p] EXCEPT !.status = 200,
                                 !.context = rq[p].context,
                                 !.historyLength = Len(rq[p].history),
                                 !.refreshToken = rq[p].refreshToken])
    /\ obs' = [obs EXCEPT !.seeded =
                  IF Head(rq[p].history) = DefaultSystem
                  THEN @ \cup {rq[p].sessionId} ELSE @,
                           !.cleared = @ \ {rq[p].username}]
    /\ UNCHANGED <<variant, users, rq, nreq>>

----------------------------------------------------------------------------
(* /history and /clear *)

(* data ? JSON.parse(data) : [] of the session list: <<ok, list>> *)
ParseList(raw) ==
    CASE raw.kind = "absent" -> <<TRUE, ListValue({})>>
      [] raw.kind \in {"list", "history"} -> <<TRUE, [raw EXCEPT !.kind = "list"]>>
      [] OTHER -> <<FALSE, NoValue>>

(* The owner-tag worker: await env.CHAT_HISTORY_BAYMAX_PROXY.get(listKey); *)
(* GET answers with the list, POST adds body.sessionId to it               *)
ListGet(p) ==
    /\ pc[p] = "list_get"
    /\ LET listKey == ListKey(rq[p].username)
           parsed == ParseList(KvGet(hist, listKey, NoValue))
           sid == rq[p].req.body.sid.id
       IN  /\ Log(p, "hist.get", listKey)
           /\ IF ~parsed[1]
              THEN Finish(p, CaughtResp("Unexpected token")) /\ UNCHANGED rq
              ELSE IF rq[p].req.method = "GET"
              THEN /\ Finish(p, [NoResp EXCEPT !.status = 200,
                                               !.histories = parsed[2].ids,
                                               !.messages = parsed[2].msgs])
                   /\ UNCHANGED rq
              ELSE /\ rq' = [rq EXCEPT ![p].histories =
                                [parsed[2] EXCEPT !.ids = @ \cup {sid}]]
                   /\ Step(p, Goto("list_put"))
    /\ UNCHANGED <<variant, users, hist, nreq, obs>>

(* await env.CHAT_HISTORY_BAYMAX_PROXY.put(listKey, JSON.stringify(histories)) *)
ListPut(p) ==
    /\ pc[p] = "list_put"
    /\ hist' = KvPutTtl(hist, ListKey(rq[p].username), rq[p].histories, HISTORY_TTL)
    /\ Log(p, "hist.put", ListKey(rq[p].username))
    /\ Finish(p, [NoResp EXCEPT !.status = 200])
    /\ UNCHANGED <<variant, users, rq, nreq, obs>>

(* The per-user worker's GET /history: the session's non-system messages *)
SessionGet(p) ==
    /\ pc[p] = "session_get"
    /\ LET sessionId == UserSessionId(rq[p].username)
           sessionData == KvGet(hist, sessionId, NoValue)
       IN  /\ Log(p, "hist.get", sessionId)
           /\ rq' = [rq EXCEPT ![p].sessionId = sessionId]
           /\ IF sessionData.kind = "absent"
              THEN Finish(p, [NoResp EXCEPT !.status = 200])
              ELSE IF sessionData.kind = "history"
              THEN Finish(p, [NoResp EXCEPT !.status = 200,
                                 !.messages = NonSystem(sessionData.msgs)])
              ELSE Finish(p, CaughtResp("messages.filter is not a function"))
    /\ UNCHANGED <<variant, users, hist, nreq, obs>>

(* The per-user worker's POST /clear *)
ClearDelete(p) ==
    /\ pc[p] = "clear_delete"
    /\ LET sessionId == UserSessionId(rq[p].username)
       IN  /\ hist' = KvDelete(hist, sessionId)
           /\ Log(p, "hist.delete", sessionId)
           /\ rq' = [rq EXCEPT ![p].sessionId = sessionId]
    /\ Finish(p, [NoResp EXCEPT !.status = 200])
    /\ obs' = [obs EXCEPT !.cleared = @ \cup {rq[p].username}]
    /\ UNCHANGED <<variant, users, nreq>>

----------------------------------------------------------------------------
(* /signup *)

Truthy(v) == v.kind # "absent"

(* const exists = await env.BAYMAX_USERS.get(username) *)
SignupGet(p) ==
    /\ pc[p] = "signup_get"
    /\ Log(p, "users.get", rq[p].username)
    /\ IF Truthy(KvGet(users, rq[p].username, Absent))
       THEN Finish(p, ErrorResp(409, "Username already exists"))
       ELSE Step(p, Goto("signup_put_hash"))
    /\ UNCHANGED <<variant, users, hist, rq, nreq, obs>>

(* await env.BAYMAX_USERS.put(username, hashed) *)
SignupPutHash(p) ==
    /\ pc[p] = "signup_put_hash"
    /\ users' = KvPut(users, rq[p].username, HashOf(rq[p].req.body.pw))
    /\ Log(p, "users.put", rq[p].username)
    /\ Step(p, Goto("signup_put_token"))
    /\ UNCHANGED <<variant, hist, rq, nreq, obs>>

(* await env.BAYMAX_USERS.put(`${username}_token`, token) *)
SignupPutToken(p) ==
    /\ pc[p] = "signup_put_token"
    /\ LET token == createToken(rq[p].username, rq[p].id)
       IN  /\ users' = KvPut(users, TokenKey(rq[p].username), token)
           /\ Finish(p, [NoResp EXCEPT !.status = 200, !.token = token])
    /\ Log(p, "users.put", TokenKey(rq[p].username))
    /\ UNCHANGED <<variant, hist, rq, nreq, obs>>

----------------------------------------------------------------------------
(* /login *)

(* The observer's count of failed /login answers in a row *)
Failed(u) == obs' = [obs EXCEPT !.fails[u] = @ + 1]
Succeeded(u) == obs' = [obs EXCEPT !.fails[u] = 0, !.run[u] = 0]

(* The observer after a failure of u that the worker counts: one more in a *)
(* row when the one before is less than LOGIN_BLOCK_TTL seconds old, else  *)
(* the first of a new row                                                  *)
Counted(o, u) ==
    [o EXCEPT !.run[u] = IF @ = 0 \/ o.now - o.last[u] >= LOGIN_BLOCK_TTL
                         THEN 1 ELSE @ + 1,
              !.last[u] = o.now]

TooMany == ErrorResp(429, "Too many login attempts. Try later.")

(* const blocked = await env.BAYMAX_USERS.get(blockKey) *)
LoginBlockGet(p) ==
    /\ pc[p] = "login_block_get"
    /\ Log(p, "users.get", BlockKey(rq[p].username))
    /\ IF Truthy(KvGet(users, BlockKey(rq[p].username), Absent))
       THEN Finish(p, TooMany) /\ Failed(rq[p].username)
       ELSE Step(p, Goto("login_stored_get")) /\ UNCHANGED obs
    /\ UNCHANGED <<variant, users, hist, rq, nreq>>

(* await bcrypt.compare(password, stored) *)
Compare(pw, stored) == stored.kind = "hash" /\ stored.n = pw

(* const stored = await env.BAYMAX_USERS.get(username), and the compare *)
LoginStoredGet(p) ==
    /\ pc[p] = "login_stored_get"
    /\ Log(p, "users.get", rq[p].username)
    /\ LET stored == KvGet(users, rq[p].username, Absent)
       IN  IF Truthy(stored) /\ Compare(rq[p].req.body.pw, stored)
           THEN Step(p, Goto("login_delete_attempts"))
           ELSE Step(p, Goto("login_attempts_get"))
    /\ UNCHANGED <<variant, users, hist, rq, nreq, obs>>

(* Number((await env.BAYMAX_USERS.get(attemptsKey)) || 0) + 1 *)
LoginAttemptsGet(p) ==
    /\ pc[p] = "login_attempts_get"
    /\ Log(p, "users.get", AttemptsKey(rq[p].username))
    /\ rq' = [rq EXCEPT ![p].curAttempts =
                 KvGet(users, AttemptsKey(rq[p].username), Absent).n + 1]
    /\ Step(p, Goto("login_attempts_put"))
    /\ UNCHANGED <<variant, users, hist, nreq, obs>>

(* if (curAttempts >= LOGIN_ATTEMPT_LIMIT) *)
LimitReachedLate(curAttempts) == curAttempts > LOGIN_ATTEMPT_LIMIT

LimitReached(curAttempts) == curAttempts >= LOGIN_ATTEMPT_LIMIT

(* await env.BAYMAX_USERS.put(attemptsKey, String(curAttempts), { ttl }) *)
LoginAttemptsPut(p) ==
    /\ pc[p] = "login_attempts_put"
    /\ users' = KvPutTtl(users, AttemptsKey(rq[p].username),
                         Count(rq[p].curAttempts), LOGIN_BLOCK_TTL)
    /\ Log(p, "users.put", AttemptsKey(rq[p].username))
    /\ IF LimitReached(rq[p].curAttempts)
       THEN /\ Step(p, Goto("login_block_put"))
            /\ obs' = Counted(obs, rq[p].username)
       ELSE /\ Finish(p, ErrorResp(401, "Invalid credentials"))
            /\ obs' = [Counted(obs, rq[p].username) EXCEPT
                          !.fails[rq[p].username] = @ + 1]
    /\ UNCHANGED <<variant, hist, rq, nreq>>

(* await env.BAYMAX_USERS.put(blockKey, '1', { ttl }) *)
LoginBlockPut(p) ==
    /\ pc[p] = "login_block_put"
    /\ users' = KvPutTtl(users, BlockKey(rq[p].username), Flag, LOGIN_BLOCK_TTL)
    /\ Log(p, "users.put", BlockKey(rq[p].username))
    /\ Finish(p, TooMany)
    /\ Failed(rq[p].username)
    /\ UNCHANGED <<variant, hist, rq, nreq>>

(* await env.BAYMAX_USERS.delete(attemptsKey) *)
LoginDeleteAttemptsSkipped(p) ==
    /\ pc[p] = "login_delete_attempts"
    /\ Log(p, "users.delete", AttemptsKey(rq[p].username))
    /\ Step(p, Goto("login_delete_block"))
    /\ UNCHANGED <<variant, users, hist, rq, nreq, obs>>

LoginDeleteAttempts(p) ==
    /\ pc[p] = "login_delete_attempts"
    /\ users' = KvDelete(users, AttemptsKey(rq[p].username))
    /\ Log(p, "users.delete", AttemptsKey(rq[p].username))
    /\ Step(p, Goto("login_delete_block"))
    /\ UNCHANGED <<variant, hist, rq, nreq, obs>>

(* await env.BAYMAX_USERS.delete(blockKey) *)
LoginDeleteBlock(p) ==
    /\ pc[p] = "login_delete_block"
    /\ users' = KvDelete(users, BlockKey(rq[p].username))
    /\ Log(p, "users.delete", BlockKey(rq[p].username))
    /\ Step(p, Goto("login_put_token"))
    /\ UNCHANGED <<variant, hist, rq, nreq, obs>>

(* await env.BAYMAX_USERS.put(`${username}_token`, token) *)
LoginPutToken(p) ==
    /\ pc[p] = "login_put_token"
    /\ LET token == createToken(rq[p].username, rq[p].id)
       IN  /\ users' = KvPut(users, TokenKey(rq[p].username), token)
           /\ Finish(p, [NoResp EXCEPT !.status = 200, !.token = token])
    /\ Log(p, "users.put", TokenKey(rq[p].username))
    /\ Succeeded(rq[p].username)
    /\ UNCHANGED <<variant, hist, rq, nreq>>

(* A key put with an expirationTtl reaches its expiry.  The observer       *)
(* starts counting afresh for the username the key belongs to.             *)
ExpireUsersKey(k, u) ==
    /\ k \in DOMAIN users
    /\ users[k].ttl
    /\ k \in {AttemptsKey(u), BlockKey(u)}
    /\ users' = KvDelete(users, k)
    /\ obs' = [obs EXCEPT !.fails[u] = 0, !.run[u] = 0]
    /\ rq' = [p \in Procs |->
                IF rq[p].username = u THEN [rq[p] EXCEPT !.failsBefore = 0]
                ELSE rq[p]]
    /\ UNCHANGED <<variant, hist, pc, resp, ops, nreq>>

(* No request is being handled *)
Quiet == \A p \in Procs : pc[p] \in {"idle", "done"}

(* d seconds pass between two requests: a request lasts seconds, the       *)
(* expiry of a key is minutes or days away                                 *)
Tick(d) ==
    /\ Quiet
    /\ users' = Aged(users, d)
    /\ hist' = Aged(hist, d)
    /\ obs' = [obs EXCEPT !.now = @ + d]
    /\ UNCHANGED <<variant, pc, rq, resp, ops, nreq>>

----------------------------------------------------------------------------
(* Initial states *)

S1 == <<"s1">>
S2 == <<"s2">>

(* The users store after the signup of u with password pw *)
Registered(kv, u, pw) == KvPut(KvPut(kv, u, HashOf(pw)), TokenKey(u), TokenFor(u, 0))

ObsInit ==
    [fails |-> [u \in Usernames |-> 0], seeded |-> {}, cleared |-> {},
     now |-> 0, last |-> [u \in Usernames |-> 0], run |-> [u \in Usernames |-> 0]]

InitCommon ==
    /\ variant \in Variants
    /\ hist = <<>>
    /\ pc = [p \in Procs |-> "idle"]
    /\ rq = [p \in Procs |-> IdleRq]
    /\ resp = [p \in Procs |-> NoResp]
    /\ ops = [p \in Procs |-> <<>>]
    /\ nreq = 0
    /\ obs = ObsInit

JsonType == "application/json"

ChatBody(msg, sid) == Body(120, 120, "object", msg, sid, NoName, 0)
ChatRequest(token, body) == Request("POST", "/", AllowedOrigin, JsonType, token, body)

----------------------------------------------------------------------------
(* SpecTurns: one user's long conversation on one session, every model     *)
(* call answered; the search returns results or fails.                     *)

TurnRequests ==
    {ChatRequest(Token("ok", Amy, TOKEN_EXPIRY),
                 ChatBody(MsgField("text", 5), SidField("ok", S1)))}

TurnSearchOutcomes == {SearchOutcome("results", 1), SearchOutcome("network_error", 0)}
TurnModelOutcomes == {ModelOutcome("ok", 200, "content")}

TurnsInit ==
    /\ InitCommon
    /\ users = Registered(<<>>, Amy, 1)

TurnsNext ==
    \/ \E r \in TurnRequests : nreq < MaxTurns /\ Receive(1, r)
    \/ OwnerGet(1)
    \/ OwnerPut(1)
    \/ HistGet(1)
    \/ \E o \in TurnSearchOutcomes : Search(1, o)
    \/ \E o \in TurnModelOutcomes : ModelCall(1, o)
    \/ HistPut(1)

SpecTurns == TurnsInit /\ [][TurnsNext]_vars

(* The history record of a session, <<>> when there is none *)
Stored(kv, sid) == KvGet(kv, sid, NoValue).msgs


----------------------------------------------------------------------------
(* Spec: the whole handler, one request after the other.  Amy and Bob have *)
(* signed up; requests probe the origin, the method, the route, the token  *)
(* and the body; the search and the model call each succeed or fail.       *)

GoodBody == ChatBody(MsgField("text", 5), SidField("ok", S1))

ProbeTokens ==
    {NoToken, Token("bad", Amy, TOKEN_EXPIRY), Token("ok", Amy, 0),
     Token("ok", NoName, TOKEN_EXPIRY), Token("ok", Amy, TOKEN_EXPIRY),
     Token("ok", Bob, TOKEN_EXPIRY)}

ProbePaths == {"/", "/verify", "/history", "/clear"}

OriginProbes ==
    {Request(m, "/", o, JsonType, t, GoodBody) :
        m \in {"OPTIONS", "POST"}, o \in {DevOrigin, OtherOrigin, ""},
        t \in {NoToken, Token("ok", Amy, TOKEN_EXPIRY)}}

TokenProbes ==
    {Request(m, pth, AllowedOrigin, JsonType, t, GoodBody) :
        m \in {"GET", "POST"}, pth \in ProbePaths, t \in ProbeTokens}
    \cup {Request("PUT", pth, AllowedOrigin, JsonType, NoToken, GoodBody) :
            pth \in {"/history", "/clear"}}

ProbeBodies ==
    {Body(JSON_BODY_LIMIT + 1, 120, "object", GoodBody.msg, GoodBody.sid, NoName, 0),
     Body(0, JSON_BODY_LIMIT + 1, "object", GoodBody.msg, GoodBody.sid, NoName, 0),
     Body(JSON_BODY_LIMIT, JSON_BODY_LIMIT, "object", GoodBody.msg, GoodBody.sid, NoName, 0),
     EmptyBody,
     Body(7, 7, "unparseable", NoMsg, NoSid, NoName, 0)}
    \cup {ChatBody(m, GoodBody.sid) :
            m \in {NoMsg, MsgField("blank", 0),
                   MsgField("text", USER_MESSAGE_LIMIT),
                   MsgField("text", USER_MESSAGE_LIMIT + 1)}}
    \cup {ChatBody(GoodBody.msg, sd) :
            sd \in {NoSid, SidField("long", NoName), SidField("ok", S2),
                    SidField("ok", OwnerKey(S1)),
                    SidField("ok", ListKey(Amy)),
                    SidField("ok", UserSessionId(Bob))}}

BodyProbes ==
    {ChatRequest(Token("ok", Amy, rem), b) :
        rem \in {TOKEN_EXPIRY, TOKEN_REFRESH_THRESHOLD - 1}, b \in ProbeBodies}
    \cup {ChatRequest(Token("ok", Amy, TOKEN_REFRESH_THRESHOLD), GoodBody)}

TextType == "text/plain"

ContentTypeProbes ==
    {Request("POST", pth, AllowedOrigin, ct, Token("ok", Amy, TOKEN_EXPIRY), GoodBody) :
        pth \in {"/", "/history"}, ct \in {TextType, ""}}

ProbeRequests ==
    OriginProbes \cup TokenProbes \cup BodyProbes \cup ContentTypeProbes

ProbeSearchOutcomes == {SearchOutcome("results", 1), SearchOutcome("timeout", 0)}
ProbeModelOutcomes ==
    {ModelOutcome("ok", 200, "content"), ModelOutcome("status", 500, ""),
     ModelOutcome("throw", 0, "timeout")}

Init ==
    /\ InitCommon
    /\ users = Registered(Registered(<<>>, Amy, 1), Bob, 2)

Next ==
    \/ \E r \in ProbeRequests : nreq < MaxRequests /\ Receive(1, r)
    \/ RefreshPut(1)
    \/ OwnerGet(1)
    \/ OwnerPut(1)
    \/ HistGet(1)
    \/ \E o \in ProbeSearchOutcomes : Search(1, o)
    \/ \E o \in ProbeModelOutcomes : ModelCall(1, o)
    \/ HistPut(1)
    \/ ListGet(1)
    \/ ListPut(1)
    \/ SessionGet(1)
    \/ ClearDelete(1)

Spec == Init /\ [][Next]_vars

----------------------------------------------------------------------------
(* SpecUpstream: well-formed chat turns of Amy and Bob, one after the      *)
(* other, under every outcome of the vector search and of the model call.  *)

UpstreamRequests ==
    {ChatRequest(t, GoodBody) :
        t \in {Token("ok", Amy, TOKEN_EXPIRY), Token("ok", Bob, TOKEN_EXPIRY),
               Token("ok", Amy, TOKEN_REFRESH_THRESHOLD - 1)}}

UpstreamNext ==
    \/ \E r \in UpstreamRequests : nreq < MaxChats /\ Receive(1, r)
    \/ RefreshPut(1)
    \/ OwnerGet(1)
    \/ OwnerPut(1)
    \/ HistGet(1)
    \/ \E o \in SearchOutcomes : Search(1, o)
    \/ \E o \in ModelOutcomes : ModelCall(1, o)
    \/ HistPut(1)

SpecUpstream == Init /\ [][UpstreamNext]_vars

----------------------------------------------------------------------------
(* SpecLogin: the account routes, one request after the other, and the     *)
(* expiry of the lockout keys.                                             *)

AccountBody(u, pw) == Body(60, 60, "object", NoMsg, NoSid, u, pw)
AccountRequest(path, body) ==
    Request("POST", path, AllowedOrigin, JsonType, NoToken, body)

LoginRequests ==
    {AccountRequest("/login", b) :
        b \in {AccountBody(Amy, 1), AccountBody(Amy, 2), AccountBody(Bob, 1),
               AccountBody(Amy, 0)}}

SignupRequests ==
    {AccountRequest("/signup", b) : b \in {AccountBody(Amy, 1), EmptyBody}}

LoginInit ==
    /\ InitCommon
    /\ users = <<>>

LoginNext ==
    \/ \E r \in LoginRequests \cup SignupRequests :
          nreq < MaxLogins /\ Receive(1, r)
    \/ SignupGet(1)
    \/ SignupPutHash(1)
    \/ SignupPutToken(1)
    \/ LoginBlockGet(1)
    \/ LoginStoredGet(1)
    \/ LoginAttemptsGet(1)
    \/ LoginAttemptsPut(1)
    \/ LoginBlockPut(1)
    \/ LoginDeleteAttempts(1)
    \/ LoginDeleteBlock(1)
    \/ LoginPutToken(1)
    \/ \E u \in Usernames, k \in DOMAIN users : ExpireUsersKey(k, u)

SpecLogin == LoginInit /\ [][LoginNext]_vars

----------------------------------------------------------------------------
(* SpecRace: chat turns of one user on one session, handled by processes   *)
(* whose awaits interleave.                                                *)

RaceRequests == {ChatRequest(Token("ok", Amy, TOKEN_EXPIRY), GoodBody)}

RaceSearchOutcomes == {SearchOutcome("network_error", 0)}
RaceModelOutcomes == {ModelOutcome("ok", 200, "content")}

RaceNext ==
    \E p \in Procs :
        \/ \E r \in RaceRequests : nreq < MaxRace /\ Receive(p, r)
        \/ OwnerGet(p)
        \/ OwnerPut(p)
        \/ HistGet(p)
        \/ \E o \in RaceSearchOutcomes : Search(p, o)
        \/ \E o \in RaceModelOutcomes : ModelCall(p, o)
        \/ HistPut(p)

SpecRace == Init /\ [][RaceNext]_vars

----------------------------------------------------------------------------
(* SpecClear: the per-user worker; Amy and Bob chat, read and clear their  *)
(* sessions, one request after the other.                                  *)

ClearRequests ==
    {Request(m, pth, AllowedOrigin, JsonType, Token("ok", u, TOKEN_EXPIRY), b) :
        m \in {"POST"}, pth \in {"/", "/clear"}, u \in Usernames,
        b \in {GoodBody, EmptyBody}}
    \cup {Request("GET", "/history", AllowedOrigin, JsonType,
                  Token("ok", Amy, TOKEN_EXPIRY), EmptyBody)}

ClearSearchOutcomes == {SearchOutcome("results", 1), SearchOutcome("timeout", 0)}
ClearModelOutcomes == {ModelOutcome("ok", 200, "content"), ModelOutcome("status", 500, "")}

ClearInit == Init /\ variant = "user"

ClearNext ==
    \/ \E r \in ClearRequests : nreq < MaxClears /\ Receive(1, r)
    \/ HistGet(1)
    \/ \E o \in ClearSearchOutcomes : Search(1, o)
    \/ \E o \in ClearModelOutcomes : ModelCall(1, o)
    \/ HistPut(1)
    \/ SessionGet(1)
    \/ ClearDelete(1)

SpecClear == ClearInit /\ [][ClearNext]_vars

----------------------------------------------------------------------------
(* SpecTrim: chat turns of Amy on a session whose record the store returns *)
(* with or without a leading system message and with up to MaxStored       *)
(* earlier messages.                                                       *)

OldMsg(i) == Msg(IF i % 2 = 1 THEN "user" ELSE "assistant", "old", i)

StoredHistory(sys, n) ==
    (IF sys THEN <<DefaultSystem>> ELSE <<>>) \o [i \in 1..n |-> OldMsg(i)]

TrimInputs == {StoredHistory(sys, n) : sys \in BOOLEAN, n \in 0..MaxStored}

TrimInit ==
    /\ variant \in Variants
    /\ users = Registered(<<>>, Amy, 1)
    /\ \E h \in TrimInputs :
          hist = KvPut(<<>>, ChatSessionId(variant, GoodBody, Amy), HistoryValue(h))
    /\ pc = [p \in Procs |-> "idle"]
    /\ rq = [p \in Procs |-> IdleRq]
    /\ resp = [p \in Procs |-> NoResp]
    /\ ops = [p \in Procs |-> <<>>]
    /\ nreq = 0
    /\ obs = ObsInit

TrimNext ==
    \/ \E r \in TurnRequests : nreq < MaxTrimTurns /\ Receive(1, r)
    \/ OwnerGet(1)
    \/ OwnerPut(1)
    \/ HistGet(1)
    \/ \E o \in TurnSearchOutcomes : Search(1, o)
    \/ \E o \in TurnModelOutcomes : ModelCall(1, o)
    \/ HistPut(1)

SpecTrim == TrimInit /\ [][TrimNext]_vars

----------------------------------------------------------------------------
(* SpecReply: chat turns of Amy whose model call answers OK with every     *)
(* combination of the reply fields.                                        *)

ReplyDatas ==
    {ReplyData(c, t, r) :
        c \in {"absent", "string", "padded", "blank", "number"},
        t \in {"absent", "string", "padded"},
        r \in {"absent", "string", "padded", "number"}}

ReplyOutcomes == {ModelReply(d) : d \in ReplyDatas}

ReplyNext ==
    \/ \E r \in TurnRequests : nreq < MaxReplies /\ Receive(1, r)
    \/ OwnerGet(1)
    \/ OwnerPut(1)
    \/ HistGet(1)
    \/ \E o \in RaceSearchOutcomes : Search(1, o)
    \/ \E o \in ReplyOutcomes : ModelCall(1, o)
    \/ HistPut(1)

SpecReply == TurnsInit /\ [][ReplyNext]_vars

----------------------------------------------------------------------------
(* SpecSignup: signups, one after the other, of usernames of which one is  *)
(* spelt like an auxiliary key of another.                                 *)

NameRequests ==
    {AccountRequest("/signup", AccountBody(u, pw)) :
        u \in SignupNames, pw \in {1, 2}}
    \cup {AccountRequest("/signup", AccountBody(NoName, 1))}

SignupNext ==
    \/ \E r \in NameRequests : nreq < MaxSignups /\ Receive(1, r)
    \/ SignupGet(1)
    \/ SignupPutHash(1)
    \/ SignupPutToken(1)

SpecSignup == LoginInit /\ [][SignupNext]_vars

----------------------------------------------------------------------------
(* SpecOwner: the owner-tag worker; chat turns of Amy and of Bob on one    *)
(* session id, handled by processes whose awaits interleave, while the     *)
(* keys of the history store age and expire.                               *)

OwnerRequests ==
    {ChatRequest(Token("ok", u, TOKEN_EXPIRY), GoodBody) : u \in Usernames}

OwnerInit == Init /\ variant = "owner"

HalfHistoryTtl == HISTORY_TTL \div 2

OwnerNext ==
    \/ \E p \in Procs :
          \/ \E r \in OwnerRequests : nreq < MaxOwnerTurns /\ Receive(p, r)
          \/ OwnerGet(p)
          \/ OwnerPut(p)
          \/ HistGet(p)
          \/ \E o \in RaceSearchOutcomes : Search(p, o)
          \/ \E o \in RaceModelOutcomes : ModelCall(p, o)
          \/ HistPut(p)
    \/ obs.now < MaxOwnerTicks * HalfHistoryTtl /\ Tick(HalfHistoryTtl)

SpecOwner == OwnerInit /\ [][OwnerNext]_vars

----------------------------------------------------------------------------
(* SpecLoginRace: logins of amy with a wrong password, handled by          *)
(* processes whose awaits interleave.                                      *)

WrongLogins == {AccountRequest("/login", AccountBody(Amy, 2))}

LoginRaceNext ==
    \E p \in Procs :
        \/ \E r \in WrongLogins : nreq < MaxLoginRace /\ Receive(p, r)
        \/ LoginBlockGet(p)
        \/ LoginStoredGet(p)
        \/ LoginAttemptsGet(p)
        \/ LoginAttemptsPut(p)
        \/ LoginBlockPut(p)

SpecLoginRace == TurnsInit /\ [][LoginRaceNext]_vars

----------------------------------------------------------------------------
(* SpecSignupRace: signups of amy with one password or another, handled by *)
(* processes whose awaits interleave.                                      *)

AmySignups == {AccountRequest("/signup", AccountBody(Amy, pw)) : pw \in {1, 2}}

SignupRaceNext ==
    \E p \in Procs :
        \/ \E r \in AmySignups : nreq < MaxSignupRace /\ Receive(p, r)
        \/ SignupGet(p)
        \/ SignupPutHash(p)
        \/ SignupPutToken(p)

SpecSignupRace == LoginInit /\ [][SignupRaceNext]_vars

----------------------------------------------------------------------------
(* SpecConsecutive: logins of amy with the right or a wrong password, one  *)
(* after the other, while no key expires.                                  *)

AmyLogins == {AccountRequest("/login", AccountBody(Amy, pw)) : pw \in {1, 2}}

ConsecutiveNext ==
    \/ \E r \in AmyLogins : nreq < MaxConsecutive /\ Receive(1, r)
    \/ LoginBlockGet(1)
    \/ LoginStoredGet(1)
    \/ LoginAttemptsGet(1)
    \/ LoginAttemptsPut(1)
    \/ LoginBlockPut(1)
    \/ LoginDeleteAttempts(1)
    \/ LoginDeleteBlock(1)
    \/ LoginPutToken(1)

SpecConsecutive == TurnsInit /\ [][ConsecutiveNext]_vars

----------------------------------------------------------------------------
(* SpecWindow: logins of amy with the right or a wrong password, one after *)
(* the other, TickSeconds or a multiple of it apart, while the lockout     *)
(* keys age and expire.                                                    *)

WindowNext ==
    \/ \E r \in AmyLogins : nreq < MaxWindowLogins /\ Receive(1, r)
    \/ LoginBlockGet(1)
    \/ LoginStoredGet(1)
    \/ LoginAttemptsGet(1)
    \/ LoginAttemptsPut(1)
    \/ LoginBlockPut(1)
    \/ LoginDeleteAttempts(1)
    \/ LoginDeleteBlock(1)
    \/ LoginPutToken(1)
    \/ obs.now < MaxWindowTicks * TickSeconds /\ Tick(TickSeconds)

SpecWindow == TurnsInit /\ [][WindowNext]_vars

----------------------------------------------------------------------------
(* SpecChecks: chat requests, one after the other, that fail none, one or  *)
(* several of the checks of the chat route at once.                        *)

CheckTokens ==
    {NoToken, Token("ok", Amy, 0), Token("ok", Amy, TOKEN_EXPIRY),
     Token("ok", Bob, TOKEN_EXPIRY), Token("ok", Bob, TOKEN_REFRESH_THRESHOLD - 1)}

CheckBodies ==
    {Body(7, 7, "unparseable", NoMsg, NoSid, NoName, 0)}
    \cup {ChatBody(m, sd) :
            m \in {NoMsg, MsgField("blank", 0), GoodBody.msg,
                   MsgField("text", USER_MESSAGE_LIMIT + 1)},
            sd \in {NoSid, SidField("long", NoName), GoodBody.sid}}

CheckRequests ==
    {Request(m, "/", AllowedOrigin, JsonType, t, b) :
        m \in {"GET", "POST"}, t \in CheckTokens, b \in CheckBodies}

ChecksNext ==
    \/ \E r \in CheckRequests : nreq < MaxChecks /\ Receive(1, r)
    \/ RefreshPut(1)
    \/ OwnerGet(1)
    \/ OwnerPut(1)
    \/ HistGet(1)
    \/ \E o \in RaceSearchOutcomes : Search(1, o)
    \/ \E o \in RaceModelOutcomes : ModelCall(1, o)
    \/ HistPut(1)

SpecChecks == Init /\ [][ChecksNext]_vars

----------------------------------------------------------------------------
(* SpecLive: chat turns, one after the other; every store operation        *)
(* returns, and each upstream call fails, is aborted by its timer, answers *)
(* in full, or answers with a body that never ends.  The steps of the      *)
(* worker are taken whenever they can be.                                  *)

WorkerStep(p) ==
    \/ RefreshPut(p)
    \/ OwnerGet(p)
    \/ OwnerPut(p)
    \/ HistGet(p)
    \/ \E o \in ProbeSearchOutcomes : Search(p, o)
    \/ SearchBodyStalls(p)
    \/ \E o \in ProbeModelOutcomes : ModelCall(p, o)
    \/ \E status \in {200, 500} : ModelBodyStalls(p, status)
    \/ HistPut(p)

LiveNext ==
    \/ \E r \in UpstreamRequests : nreq < MaxLive /\ Receive(1, r)
    \/ WorkerStep(1)

SpecLive == Init /\ [][LiveNext]_vars /\ WF_vars(WorkerStep(1))

Range(f) == {f[i] : i \in DOMAIN f}

Histories == {k \in DOMAIN hist : hist[k].kind = "history"}

----------------------------------------------------------------------------
(* C1: in both workers, after any sequence of successful chat turns the    *)
(* history record persisted for a session never holds more than            *)
(* MAX_HISTORY messages.                                                   *)
C1_HistoryCapped ==
    \A k \in Histories : Len(hist[k].msgs) <= MAX_HISTORY

(* C2: every persisted history record that contains a system message       *)
(* contains exactly one, and it is the record's first element.             *)
C2_OneLeadingSystem ==
    \A k \in Histories :
        Systems(hist[k].msgs) # <<>> =>
            /\ Len(Systems(hist[k].msgs)) = 1
            /\ IsSystem(hist[k].msgs[1])

(* C3: the synthetic context message of a chat turn is sent to the model   *)
(* only: the record that turn writes to the store does not contain it.     *)
C3_ContextNotPersisted ==
    \A p \in Procs :
        (pc[p] = "done" /\ resp[p].status = 200 /\ resp[p].context # 0) =>
            ContextMessage(resp[p].context)
                \notin Range(Stored(hist, rq[p].sessionId))

(* C4: once a session's stored history began with the default system       *)
(* prompt, every later successful chat turn leaves that prompt in the      *)
(* stored history.                                                         *)
C4_DefaultPromptKept ==
    \A k \in obs.seeded \cap Histories : DefaultSystem \in Range(hist[k].msgs)


----------------------------------------------------------------------------
(* What a request did outside the worker *)

OpNames(p) == {ops[p][i].op : i \in DOMAIN ops[p]}

TouchesHistory(p) == OpNames(p) \cap {"hist.get", "hist.put", "hist.delete"} # {}
CallsUpstream(p) == OpNames(p) \cap {"search", "model"} # {}

(* A token that is missing, or has a bad signature, or is expired, or has  *)
(* a payload without a username                                            *)
BadToken(t) == ~t.present \/ t.sig # "ok" \/ t.rem <= 0 \/ t.who = NoName

IsChatPath(v, path) ==
    path \notin {"/signup", "/login", "/verify", "/history"}
    /\ ~(v = "user" /\ path = "/clear")

(* The request is one of a protected operation: it passed the origin gate  *)
(* and names /verify, /history, /clear, or is a POST of a chat turn.       *)
ProtectedOperation(v, r) ==
    /\ r.method # "OPTIONS"
    /\ OriginAllowed(v, r.origin)
    /\ \/ r.path \in {"/verify", "/history"}
       \/ v = "user" /\ r.path = "/clear"
       \/ IsChatPath(v, r.path) /\ r.method = "POST"

IsChatTurn(v, r) ==
    r.method = "POST" /\ OriginAllowed(v, r.origin) /\ IsChatPath(v, r.path)

(* C5: on every protected operation a request whose bearer token is        *)
(* missing or fails verification is answered 401, and it neither reads nor *)
(* writes the history store nor calls the search or the model API.         *)
C5_BadTokenStopsAt401 ==
    \A p \in Procs :
        (pc[p] = "done" /\ BadToken(rq[p].req.token)
           /\ rq[p].req.path \in ProbePaths) =>
            /\ ~TouchesHistory(p)
            /\ ~CallsUpstream(p)
            /\ ProtectedOperation(variant, rq[p].req) => resp[p].status = 401

C5_Witness ==
    \E p \in Procs :
        /\ pc[p] = "done"
        /\ rq[p].req.token = Token("ok", Amy, 0)
        /\ IsChatTurn(variant, rq[p].req)
        /\ resp[p].status = 401
        /\ S1 \in DOMAIN hist

(* C6: a chat request whose declared Content-Length or measured body       *)
(* length exceeds JSON_BODY_LIMIT is rejected with no key-value store read *)
(* or write and no search or model call made during the request, for every *)
(* valid bearer token whatever its remaining lifetime.                     *)
Oversized(b) == b.clen > JSON_BODY_LIMIT \/ b.size > JSON_BODY_LIMIT

C6_OversizedBodyNoSideEffect ==
    \A p \in Procs :
        (pc[p] = "done" /\ IsChatTurn(variant, rq[p].req)
           /\ ~BadToken(rq[p].req.token) /\ Oversized(rq[p].req.body)) =>
            /\ resp[p].status \in {400, 413}
            /\ ops[p] = <<>>

(* C7: after 5 failed /login answers in a row for a username, with no      *)
(* expiry of its lockout keys, every further /login for that username is   *)
(* answered 429, also with the correct password.                           *)
IsLogin(r) ==
    /\ r.method = "POST" /\ r.path = "/login"
    /\ BodyOrNull(r.body) = "object"
    /\ isValidUsername(r.body.user) /\ isValidPassword(r.body.pw)

C7_LockedOutAfterFive ==
    \A p \in Procs :
        (pc[p] = "done" /\ IsLogin(rq[p].req)
           /\ rq[p].failsBefore >= LOGIN_ATTEMPT_LIMIT) =>
            resp[p].status = 429

C7_Witness ==
    \E p \in Procs :
        /\ pc[p] = "done" /\ IsLogin(rq[p].req)
        /\ rq[p].failsBefore >= LOGIN_ATTEMPT_LIMIT
        /\ Compare(rq[p].req.body.pw, KvGet(users, rq[p].req.body.user, Absent))
        /\ resp[p].status = 429

(* C8: whatever way the vector search fails, the chat turn goes on to the  *)
(* model call, and if that succeeds the response is 200 with an empty      *)
(* nonSensitive.context and no synthetic context message among the         *)
(* messages sent upstream.                                                 *)
IsContextMessage(m) == m.role = "system" /\ m.content.tag = "context"

C8_SearchFailureAbsorbed ==
    \A p \in Procs :
        rq[p].searched \in SearchFailures =>
            /\ pc[p] \in {"model", "hist_put", "done"}
            /\ \A m \in Range(rq[p].upstream) : ~IsContextMessage(m)
            /\ (pc[p] = "done" /\ rq[p].modelled.kind = "ok") =>
                  (resp[p].status = 200 /\ resp[p].context = 0)

(* C9: when the model API answers with a non-success status S, the         *)
(* response is 502 with upstreamStatus = S and the session's stored        *)
(* history record is what it was before the request.                       *)
C9_ModelErrorLeavesHistory ==
    \A p \in Procs :
        (pc[p] = "done" /\ rq[p].modelled.kind = "status") =>
            /\ resp[p].status = 502
            /\ resp[p].upstreamStatus = rq[p].modelled.status
            /\ KvGet(hist, rq[p].sessionId, NoValue)
                  = KvGet(rq[p].pre, rq[p].sessionId, NoValue)

C9_Witness ==
    \E p \in Procs :
        /\ pc[p] = "done" /\ rq[p].modelled.kind = "status"
        /\ resp[p].status = 502
        /\ resp[p].upstreamStatus = 429
        /\ Len(Stored(hist, rq[p].sessionId)) >= 3

(* C10: every failure of the model call, a timeout abort or a network      *)
(* error of the fetch as well as a non-OK status, ends the request with a  *)
(* 502 response.                                                           *)
C10_EveryModelFailureIs502 ==
    \A p \in Procs :
        (pc[p] = "done" /\ rq[p].modelled.kind \in {"throw", "status"}) =>
            resp[p].status = 502

----------------------------------------------------------------------------
(* C11: a request that ends in the handler's outer catch is answered 500   *)
(* with one fixed generic error text, whatever the exception was: no       *)
(* exception message reaches the client.                                   *)
GenericError == "Internal Server Error"

C11_InternalErrorIsGeneric ==
    \A p \in Procs :
        (pc[p] = "done" /\ resp[p].status = 500) =>
            resp[p].error = GenericError

(* C12: when the value read under the session's history key is not a JSON  *)
(* array of messages, the chat turn takes the single default system        *)
(* message as its history and goes on to the vector search instead of      *)
(* failing.                                                                *)
NotAnArray(raw) == raw.kind \notin {"unread", "absent", "history", "list"}

C12_BadHistoryIsReset ==
    \A p \in Procs :
        NotAnArray(rq[p].loaded) =>
            /\ pc[p] \in {"search", "model", "hist_put", "done"}
            /\ pc[p] = "done" => rq[p].searched.kind # ""
            /\ pc[p] = "search" =>
                  rq[p].history = <<DefaultSystem, UserMsg(rq[p].id)>>

----------------------------------------------------------------------------
(* C13: in the owner-tag worker, a chat request for a session id whose     *)
(* owner tag names another user is answered 403, and it neither reads nor  *)
(* writes that session's history record nor calls the search or the model  *)
(* API.                                                                    *)
PassesChatChecks(v, r) ==
    /\ IsChatTurn(v, r)
    /\ ~BadToken(r.token)
    /\ ChatParse(v, r, Absent).pc # "done"

TaggedForOther(kv, sid, username) ==
    LET owner == KvGet(kv, OwnerKey(sid), NoValue)
    IN  owner.kind = "owner" /\ owner.who # username

OpKeys(p) == {ops[p][i].key : i \in DOMAIN ops[p]}

C13_ForeignSessionForbidden ==
    \A p \in Procs :
        (variant = "owner" /\ pc[p] = "done"
           /\ PassesChatChecks(variant, rq[p].req)
           /\ TaggedForOther(rq[p].pre, rq[p].req.body.sid.id,
                             verifyJWT(rq[p].req.token))) =>
            /\ resp[p].status = 403
            /\ rq[p].req.body.sid.id \notin OpKeys(p)
            /\ ~CallsUpstream(p)
            /\ KvGet(hist, rq[p].req.body.sid.id, NoValue)
                  = KvGet(rq[p].pre, rq[p].req.body.sid.id, NoValue)

C13_Witness ==
    \E p \in Procs :
        /\ variant = "owner" /\ pc[p] = "done"
        /\ rq[p].req = ChatRequest(Token("ok", Bob, TOKEN_EXPIRY), GoodBody)
        /\ Payload(KvGet(rq[p].pre, OwnerKey(S1), NoValue)) = OwnerValue(Amy)
        /\ Len(Stored(hist, S1)) >= 3
        /\ resp[p].status = 403

----------------------------------------------------------------------------
(* C14: in the per-user worker every history-store key that a request      *)
(* reads, writes or deletes is session_<username> for the username of its  *)
(* verified token, whatever the request body holds, and the history        *)
(* records of the other users are left as they were.                       *)
HistoryKeys(p) ==
    {ops[p][i].key : i \in {j \in DOMAIN ops[p] :
        ops[p][j].op \in {"hist.get", "hist.put", "hist.delete"}}}

C14_OwnSessionOnly ==
    \A p \in Procs :
        (variant = "user" /\ pc[p] # "idle") =>
            /\ HistoryKeys(p) \subseteq {UserSessionId(verifyJWT(rq[p].req.token))}
            /\ HistoryKeys(p) # {} => ~BadToken(rq[p].req.token)
            /\ \A u \in Usernames \ {verifyJWT(rq[p].req.token)} :
                  KvGet(hist, UserSessionId(u), NoValue)
                     = KvGet(rq[p].pre, UserSessionId(u), NoValue)

C14_Witness ==
    \E p \in Procs :
        /\ variant = "user" /\ pc[p] = "done"
        /\ verifyJWT(rq[p].req.token) = Amy
        /\ rq[p].req.body.sid = SidField("ok", UserSessionId(Bob))
        /\ resp[p].status = 200
        /\ HistoryKeys(p) = {UserSessionId(Amy)}
        /\ Len(Stored(hist, UserSessionId(Bob))) >= 3

----------------------------------------------------------------------------
(* C15: two chat turns for one session that overlap so that each reads the *)
(* history before the other writes it both end 200, and the history then   *)
(* stored lacks the user and assistant messages of one of the two turns.   *)
AssistantMsgOf(p) ==
    [role |-> "assistant", content |-> RefinedReply(rq[p].modelled, rq[p].id)]

Answered(p) == pc[p] = "done" /\ resp[p].status = 200

(* p loaded its history before q wrote: q's user message is not in it *)
ReadBeforeWriteOf(p, q) == UserMsg(rq[q].id) \notin Range(rq[p].history)

Overlapped(p, q) ==
    /\ p # q /\ Answered(p) /\ Answered(q)
    /\ rq[p].sessionId = rq[q].sessionId
    /\ ReadBeforeWriteOf(p, q) /\ ReadBeforeWriteOf(q, p)

TurnStored(p) ==
    {UserMsg(rq[p].id), AssistantMsgOf(p)}
        \subseteq Range(Stored(hist, rq[p].sessionId))

TurnLost(p) ==
    {UserMsg(rq[p].id), AssistantMsgOf(p)}
        \cap Range(Stored(hist, rq[p].sessionId)) = {}

C15_OverlapLosesOneTurn ==
    \A p, q \in Procs :
        Overlapped(p, q) => TurnLost(p) \/ TurnLost(q)

C15_Witness ==
    \E p, q \in Procs :
        /\ Overlapped(p, q)
        /\ TurnStored(p) /\ TurnLost(q)
        /\ rq[q].id < rq[p].id

----------------------------------------------------------------------------
(* C16: in the per-user worker, with requests handled one after the other, *)
(* the chat turn of a user that follows a successful POST /clear of that   *)
(* user finds no record and takes the single default system message as its *)
(* history, whatever was stored before the clear.                          *)
C16_ClearThenChatLoadsDefault ==
    \A p \in Procs :
        (variant = "user" /\ IsChatTurn(variant, rq[p].req)
           /\ rq[p].clearedBefore /\ rq[p].loaded # NotRead) =>
            /\ ParseHistory(variant, rq[p].loaded) = <<TRUE, <<DefaultSystem>>>>
            /\ pc[p] = "search" =>
                  rq[p].history = <<DefaultSystem, UserMsg(rq[p].id)>>

C16_Witness ==
    \E p \in Procs :
        /\ variant = "user" /\ pc[p] = "search"
        /\ rq[p].clearedBefore
        /\ rq[p].sessionId \in obs.seeded
        /\ rq[p].history = <<DefaultSystem, UserMsg(rq[p].id)>>

----------------------------------------------------------------------------
(* C17: POST /clear answers success whether or not the session has a       *)
(* record, leaves the store without the session's record and otherwise as  *)
(* it was; a second clear in a row leaves the store as the first left it   *)
(* and gives the same response.                                            *)
IsClear(v, r) ==
    /\ v = "user" /\ r.method = "POST" /\ r.path = "/clear"
    /\ OriginAllowed(v, r.origin) /\ ~BadToken(r.token)

ClearSuccess == [NoResp EXCEPT !.status = 200]

C17_ClearIdempotent ==
    \A p \in Procs :
        (pc[p] = "done" /\ IsClear(variant, rq[p].req)) =>
            /\ resp[p] = ClearSuccess
            /\ hist = KvDelete(rq[p].pre, UserSessionId(verifyJWT(rq[p].req.token)))
            /\ UserSessionId(verifyJWT(rq[p].req.token)) \notin DOMAIN hist
            /\ rq[p].clearedBefore => hist = rq[p].pre

C17_Witness ==
    \E p \in Procs :
        /\ pc[p] = "done" /\ IsClear(variant, rq[p].req)
        /\ rq[p].clearedBefore
        /\ rq[p].sessionId \in obs.seeded
        /\ resp[p] = ClearSuccess
        /\ hist = rq[p].pre

----------------------------------------------------------------------------
(* C18: a chat request with a valid token gets a replacement token exactly *)
(* when the token has less than TOKEN_REFRESH_THRESHOLD seconds left: then *)
(* the new token is written under <username>_token and the success         *)
(* response carries it in refreshToken; otherwise refreshToken is null and *)
(* the request writes no token to the user store.                          *)
ValidChat(v, r) == IsChatTurn(v, r) /\ ~BadToken(r.token)

TokenWrites(p) ==
    {i \in DOMAIN ops[p] : ops[p][i] = Op("users.put", TokenKey(rq[p].username))}

C18_RefreshBelowThreshold ==
    \A p \in Procs :
        (pc[p] = "done" /\ ValidChat(variant, rq[p].req)) =>
            IF rq[p].req.token.rem < TOKEN_REFRESH_THRESHOLD
            THEN /\ rq[p].refreshToken = createToken(rq[p].username, rq[p].id)
                 /\ Cardinality(TokenWrites(p)) = 1
                 /\ resp[p].status = 200 =>
                       resp[p].refreshToken = rq[p].refreshToken
            ELSE /\ rq[p].refreshToken = Absent
                 /\ resp[p].refreshToken = Absent
                 /\ \A i \in DOMAIN ops[p] : ops[p][i].op # "users.put"

C18_Witness ==
    \E p \in Procs :
        /\ pc[p] = "done"
        /\ IsChatTurn(variant, rq[p].req)
        /\ rq[p].req.token = Token("ok", Amy, TOKEN_REFRESH_THRESHOLD - 1)
        /\ resp[p].status = 200
        /\ resp[p].refreshToken = createToken(Amy, rq[p].id)
        /\ users[TokenKey(Amy)] = resp[p].refreshToken

----------------------------------------------------------------------------
(* C19: every error response of a chat request for which a replacement     *)
(* token was issued carries that token in its refreshToken field: the 400  *)
(* and 413 validation errors, the 403 of the ownership check, the 502 and  *)
(* the 500 of an exception.                                                *)
C19_ErrorsCarryRefreshToken ==
    \A p \in Procs :
        (pc[p] = "done" /\ ValidChat(variant, rq[p].req)
           /\ rq[p].refreshToken # Absent /\ resp[p].status >= 400) =>
            resp[p].refreshToken = rq[p].refreshToken

----------------------------------------------------------------------------
(* C20: in both workers every non-OPTIONS request whose Origin is not an   *)
(* exact member of ALLOWED_ORIGINS is answered 403 before any token        *)
(* verification, store access or upstream call.                            *)
C20_ForeignOriginForbidden ==
    \A p \in Procs :
        (pc[p] # "idle" /\ rq[p].req.method # "OPTIONS"
           /\ rq[p].req.origin # AllowedOrigin) =>
            /\ pc[p] = "done"
            /\ resp[p].status = 403
            /\ ops[p] = <<>>

----------------------------------------------------------------------------
(* C21: a body-bearing request whose Content-Type is not application/json  *)
(* is answered 415 and makes no store operation and no upstream call.      *)
BodyBearing(v, r) ==
    /\ r.method = "POST" /\ OriginAllowed(v, r.origin)
    /\ \/ r.path \in {"/signup", "/login"}
       \/ IsChatPath(v, r.path) /\ ~BadToken(r.token)
       \/ v = "owner" /\ r.path = "/history" /\ ~BadToken(r.token)

C21_NotJsonIs415 ==
    \A p \in Procs :
        (pc[p] # "idle" /\ BodyBearing(variant, rq[p].req)
           /\ rq[p].req.ctype # JsonType) =>
            /\ pc[p] = "done"
            /\ resp[p].status = 415
            /\ ops[p] = <<>>

----------------------------------------------------------------------------
(* C22: the steps of a chat turn on its session come in the order history  *)
(* read, vector search, model call, history write, response: the history   *)
(* is written only after the model call returned a success status, the     *)
(* vector search never ends the request, and a 200 response follows all    *)
(* four steps.                                                             *)
IsPipelineOp(p, o) ==
    \/ o.op \in {"search", "model"}
    \/ /\ o.op \in {"hist.get", "hist.put"}
       /\ o.key = ChatSessionId(variant, rq[p].req.body, verifyJWT(rq[p].req.token))

PipelineOps(p) ==
    LET Keep(o) == IsPipelineOp(p, o)
        kept == SelectSeq(ops[p], Keep)
    IN  [i \in DOMAIN kept |-> kept[i].op]

Pipeline == <<"hist.get", "search", "model", "hist.put">>

C22_PipelineOrder ==
    \A p \in Procs :
        IsChatTurn(variant, rq[p].req) =>
            /\ \E n \in 0..Len(Pipeline) : PipelineOps(p) = SubSeq(Pipeline, 1, n)
            /\ "hist.put" \in Range(PipelineOps(p)) => rq[p].modelled.kind = "ok"
            /\ PipelineOps(p) = <<"hist.get", "search">> => pc[p] = "model"
            /\ (pc[p] = "done" /\ resp[p].status = 200) <=> PipelineOps(p) = Pipeline

C22_Witness ==
    \E p \in Procs :
        /\ pc[p] = "done" /\ resp[p].status = 200
        /\ rq[p].searched \in SearchFailures
        /\ PipelineOps(p) = Pipeline

----------------------------------------------------------------------------
(* C23: within one request the vector search and the model completion are  *)
(* each called at most once, whatever the call comes to.                   *)
Calls(p, name) == Cardinality({i \in DOMAIN ops[p] : ops[p][i].op = name})

C23_NoRetry ==
    \A p \in Procs : Calls(p, "search") <= 1 /\ Calls(p, "model") <= 1

C23_Witness ==
    \E p \in Procs :
        /\ pc[p] = "done"
        /\ rq[p].searched \in SearchFailures
        /\ rq[p].modelled \in ModelThrows \cup ModelErrors
        /\ Calls(p, "search") = 1 /\ Calls(p, "model") = 1

----------------------------------------------------------------------------
(* C24: the history a chat turn keeps when it appends and trims is the     *)
(* first system message (if any) followed by the most recent               *)
(* MAX_HISTORY - 1 non-system messages in their order, or the most recent  *)
(* MAX_HISTORY non-system messages when there is no system message: in the *)
(* owner-tag worker after the user message is appended, in the per-user    *)
(* worker at its trim before the put.                                      *)
FirstSystem(h) ==
    LET idx == {i \in DOMAIN h : h[i].role = "system"}
    IN  IF idx = {} THEN <<>>
        ELSE <<h[CHOOSE i \in idx : \A j \in idx : i <= j]>>

Others(h) ==
    LET NotSystem(m) == m.role # "system"
    IN  SelectSeq(h, NotSystem)

Recent(s, k) ==
    LET n == IF Len(s) < k THEN Len(s) ELSE k
    IN  [i \in 1..n |-> s[Len(s) - n + i]]

Retained(h) ==
    FirstSystem(h) \o Recent(Others(h), MAX_HISTORY - Len(FirstSystem(h)))

LoadedHistory(p) == ParseHistory(variant, rq[p].loaded)[2]

OwnerAppendKeepsWindow ==
    \A p \in Procs :
        (variant = "owner" /\ pc[p] = "search") =>
            rq[p].history = Retained(Append(LoadedHistory(p), UserMsg(rq[p].id)))

UserTrimKeepsWindow ==
    \A p \in Procs :
        (variant = "user" /\ pc[p] = "hist_put") =>
            rq[p].history =
                Retained(Append(Append(LoadedHistory(p), UserMsg(rq[p].id)),
                                AssistantMsgOf(p)))

----------------------------------------------------------------------------
(* C25: on an OK model response the reply text is choices[0].message       *)
(* .content if present, else choices[0].text, else a string-valued reply,  *)
(* else 'Model returned no reply'; output.refined is that text trimmed.    *)
Present(kind) == kind # "absent"

ChosenField(d) ==
    CASE Present(d.content) -> "content"
      [] ~Present(d.content) /\ Present(d.text) -> "text"
      [] ~Present(d.content) /\ ~Present(d.text) /\ d.reply \notin {"absent", "number"}
            -> "reply"
      [] OTHER -> "none"

(* The trimmed text of a field: the field's name for a string with or      *)
(* without white space around it, '' for white space only, '5' for 5       *)
TrimmedText(field, kind) ==
    CASE kind \in {"string", "padded"} -> field
      [] kind = "blank" -> ""
      [] OTHER -> "5"

ExpectedRefined(d) ==
    LET f == ChosenField(d)
    IN  IF f = "none" THEN "Model returned no reply"
        ELSE TrimmedText(f, d[f])

C25_ReplyPrecedence ==
    \A p \in Procs :
        (pc[p] \in {"hist_put", "done"} /\ rq[p].modelled.kind = "ok") =>
            /\ resp[p].refined.tag = ExpectedRefined(rq[p].modelled.data)
            /\ pc[p] = "done" => resp[p].status = 200

C25_Witness ==
    \E p \in Procs :
        /\ pc[p] = "done" /\ resp[p].status = 200
        /\ rq[p].modelled.data = ReplyData("absent", "padded", "string")
        /\ resp[p].refined.tag = "text"

----------------------------------------------------------------------------
(* C26: a chat request with a valid token and a parsed body is answered    *)
(* 413 'userMessage too long' when the trimmed userMessage has more than   *)
(* USER_MESSAGE_LIMIT characters and 400 when it is empty after trimming,  *)
(* in both cases without any access to the history store; a message of     *)
(* exactly USER_MESSAGE_LIMIT characters passes the check.                 *)
ParsedChat(v, r) == ValidChat(v, r) /\ BodyOrNull(r.body) = "object"

C26_MessageLengthCheck ==
    \A p \in Procs :
        (pc[p] = "done" /\ ParsedChat(variant, rq[p].req)) =>
            LET msg == rq[p].req.body.msg
            IN  /\ (msg.kind = "text" /\ msg.len > USER_MESSAGE_LIMIT) =>
                      /\ resp[p].status = 413
                      /\ resp[p].error = "userMessage too long"
                      /\ ~TouchesHistory(p) /\ ~CallsUpstream(p)
                /\ msg.kind = "blank" =>
                      /\ resp[p].status = 400
                      /\ resp[p].error = "Missing userMessage"
                      /\ ~TouchesHistory(p) /\ ~CallsUpstream(p)
                /\ (msg.kind = "text" /\ msg.len = USER_MESSAGE_LIMIT) =>
                      /\ resp[p].status # 413
                      /\ TouchesHistory(p)

C26_Witness ==
    \E p \in Procs :
        /\ pc[p] = "done" /\ ParsedChat(variant, rq[p].req)
        /\ rq[p].req.body.msg = MsgField("text", USER_MESSAGE_LIMIT + 1)
        /\ resp[p].status = 413
        /\ Len(Stored(hist, S1)) >= 3

----------------------------------------------------------------------------
(* C27: a successful first chat turn on a session with no stored history   *)
(* and an empty search context stores exactly the default system message,  *)
(* the user message and the assistant reply, and the historyLength of a    *)
(* 200 response is the length of the record the turn wrote.                *)
C27_FirstTurnStoresThree ==
    \A p \in Procs :
        (pc[p] = "done" /\ resp[p].status = 200) =>
            /\ resp[p].historyLength = Len(Stored(hist, rq[p].sessionId))
            /\ (rq[p].loaded = NoValue /\ resp[p].context = 0) =>
                  Stored(hist, rq[p].sessionId)
                     = <<DefaultSystem, UserMsg(rq[p].id), AssistantMsgOf(p)>>

C27_Witness ==
    \E p \in Procs :
        /\ pc[p] = "done" /\ resp[p].status = 200
        /\ rq[p].loaded = NoValue /\ resp[p].context = 0
        /\ resp[p].historyLength = 3
        /\ Len(Stored(hist, rq[p].sessionId)) = 3

----------------------------------------------------------------------------
(* The browser clients *)

(* The JSON of a worker response as a client reads it: the 200 envelope    *)
(* has the keys input, output, nonSensitive and refreshToken, and so no    *)
(* top-level reply and no top-level choices.                               *)
WorkerResponseShape(r) ==
    [status |-> r.status, reply |-> "absent", choices |-> "absent",
     refined |-> r.refined, refreshToken |-> r.refreshToken]

ClientReturn(kind, text) == [kind |-> kind, text |-> text]

getMockBaymaxResponse == ClientReturn("mock", NoContent)

(* res.ok *)
Ok(res) == res.status \in 200..299

(* lib/groq-api.ts: data.reply ?? data.choices[0].message.content ??       *)
(* data.choices[0].text, else the mock reply; a non-OK response throws     *)
sendMessageToBaymaxAuth0(res) ==
    IF ~Ok(res) THEN ClientReturn("throw", NoContent)
    ELSE IF res.reply # "absent"
    THEN ClientReturn("reply", [tag |-> "reply", n |-> 0])
    ELSE IF res.choices # "absent"
    THEN ClientReturn("reply", [tag |-> "choices", n |-> 0])
    ELSE getMockBaymaxResponse

(* part_004: data.output.refined ?? ..., the 'Baymax is thinking' text     *)
(* when that is falsy, else reply.trim(); every throw ends in the mock     *)
sendMessageToBaymax(res) ==
    IF ~Ok(res) THEN getMockBaymaxResponse
    ELSE IF res.refined.tag = "" THEN ClientReturn("fallback", NoContent)
    ELSE ClientReturn("reply", [res.refined EXCEPT !.tag = Trim(@)])

----------------------------------------------------------------------------
(* C28: for every 200 response of a chat turn the client function          *)
(* sendMessageToBaymax returns the text of output.refined, not a mock or   *)
(* fallback reply.                                                         *)
SessionClientReturnsRefined ==
    \A p \in Procs :
        (pc[p] = "done" /\ resp[p].status = 200 /\ rq[p].modelled.kind = "ok") =>
            sendMessageToBaymax(WorkerResponseShape(resp[p]))
                = ClientReturn("reply", resp[p].refined)

Auth0ClientReturnsRefined ==
    \A p \in Procs :
        (pc[p] = "done" /\ resp[p].status = 200 /\ rq[p].modelled.kind = "ok") =>
            sendMessageToBaymaxAuth0(WorkerResponseShape(resp[p]))
                = ClientReturn("reply", resp[p].refined)

C28_ClientReturnsRefined ==
    SessionClientReturnsRefined /\ Auth0ClientReturnsRefined

----------------------------------------------------------------------------
(* C29: a /signup for one valid username leaves the password hash, the     *)
(* stored token, the failed-attempt counter and the block flag of every    *)
(* other registered username as they were: it writes none of their keys.   *)
RecordKeys(w) == {w, TokenKey(w), AttemptsKey(w), BlockKey(w)}

Writes(p) == {ops[p][i].key : i \in {j \in DOMAIN ops[p] : ops[p][j].op = "users.put"}}

C29_SignupTouchesOwnRecordOnly ==
    \A p \in Procs :
        (pc[p] # "idle" /\ rq[p].req.path = "/signup") =>
            \A w \in rq[p].registered \ {rq[p].username} :
                /\ Writes(p) \cap RecordKeys(w) = {}
                /\ KvGet(users, w, Absent).kind = "hash"

----------------------------------------------------------------------------
(* C30: in the owner-tag worker a chat turn never changes a history-store  *)
(* record that is an owner tag or a session list: each such record is      *)
(* after the request what it was before.                                   *)
OtherKind(v) == v.kind \in {"owner", "list"}

C30_ChatKeepsOtherRecords ==
    \A p \in Procs :
        (variant = "owner" /\ pc[p] # "idle" /\ IsChatTurn(variant, rq[p].req)) =>
            \A k \in DOMAIN rq[p].pre :
                OtherKind(rq[p].pre[k]) => KvGet(hist, k, NoValue) = rq[p].pre[k]

----------------------------------------------------------------------------
(* C31: in the owner-tag worker, of two chat requests of different users   *)
(* that arrive for one session id while it has no owner tag, before any    *)
(* key expired, at most one passes the ownership check and reads or writes *)
(* the session's history record.                                           *)
ArrivedUntagged(p) ==
    /\ pc[p] # "idle"
    /\ PassesChatChecks(variant, rq[p].req)
    /\ OwnerKey(rq[p].req.body.sid.id) \notin DOMAIN rq[p].pre

UsesHistoryOf(p) == rq[p].req.body.sid.id \in HistoryKeys(p)

C31_OneUserPassesOwnership ==
    \A p, q \in Procs :
        (variant = "owner" /\ obs.now = 0 /\ p # q
           /\ ArrivedUntagged(p) /\ ArrivedUntagged(q)
           /\ rq[p].req.body.sid.id = rq[q].req.body.sid.id
           /\ rq[p].username # rq[q].username) =>
            ~(UsesHistoryOf(p) /\ UsesHistoryOf(q))

----------------------------------------------------------------------------
(* C32: in the owner-tag worker, with requests handled one after the       *)
(* other, as long as a session id has a history record it has an owner     *)
(* tag, and a request that passes the ownership check of a session with a  *)
(* stored history is of the user the tag named when the request arrived.   *)
TagOf(kv, sid) == KvGet(kv, OwnerKey(sid), NoValue)

(* One process has handled every request so far *)
OneAfterTheOther == Cardinality({p \in Procs : pc[p] # "idle"}) <= 1

C32_OwnerTagOutlivesHistory ==
    (variant = "owner" /\ OneAfterTheOther) =>
        /\ \A sid \in Histories : TagOf(hist, sid).kind = "owner"
        /\ \A p \in Procs :
              (pc[p] # "idle" /\ PassesChatChecks(variant, rq[p].req)
                 /\ UsesHistoryOf(p)
                 /\ KvGet(rq[p].pre, rq[p].req.body.sid.id, NoValue).kind = "history") =>
                  Payload(TagOf(rq[p].pre, rq[p].req.body.sid.id))
                     = OwnerValue(rq[p].username)

----------------------------------------------------------------------------
(* C33: however /login requests for a username interleave, at most         *)
(* LOGIN_ATTEMPT_LIMIT wrong passwords are compared with the stored hash   *)
(* before the block flag is set, and the counter holds the number of       *)
(* counted failures: no increment is lost.                                 *)

(* The wrong-password logins of u that got past the compare, while no      *)
(* block flag was ever set: those answered and those still in flight       *)
Evaluated(u) ==
    obs.fails[u]
    + Cardinality({p \in Procs :
                      /\ rq[p].username = u
                      /\ pc[p] \in {"login_attempts_get", "login_attempts_put",
                                    "login_block_put"}})

C33_NoLostIncrement ==
    \A u \in Usernames :
        /\ BlockKey(u) \notin DOMAIN users => Evaluated(u) <= LOGIN_ATTEMPT_LIMIT
        /\ Quiet => KvGet(users, AttemptsKey(u), Absent).n = obs.run[u]

----------------------------------------------------------------------------
(* C34: however /signup requests for one username interleave, at most one  *)
(* of them is answered with a token, and the stored hash is that of the    *)
(* password of a request that was; a /signup for a username that had a     *)
(* hash when it arrived is answered 409 and writes nothing.                *)
IsSignup(r) ==
    /\ r.method = "POST" /\ r.path = "/signup"
    /\ BodyOrNull(r.body) = "object"
    /\ isValidUsername(r.body.user) /\ isValidPassword(r.body.pw)

GotToken(p) ==
    pc[p] = "done" /\ IsSignup(rq[p].req) /\ resp[p].status = 200

C34_OneSignupWins ==
    /\ \A p, q \in Procs :
          (GotToken(p) /\ GotToken(q) /\ rq[p].username = rq[q].username) => p = q
    /\ \A p \in Procs :
          (GotToken(p) /\ \A q \in Procs \ {p} : pc[q] \in {"idle", "done"}) =>
              KvGet(users, rq[p].username, Absent) = HashOf(rq[p].req.body.pw)
    /\ \A p \in Procs :
          (pc[p] = "done" /\ IsSignup(rq[p].req)
             /\ rq[p].username \in rq[p].registered) =>
              resp[p].status = 409 /\ Writes(p) = {}

----------------------------------------------------------------------------
(* C35: a successful /login leaves the username without failed-attempt     *)
(* counter and without block flag, so that only failures in a row count:   *)
(* a /login is answered 429 only when at least LOGIN_ATTEMPT_LIMIT - 1     *)
(* failures came before it since the last success, and a wrong password    *)
(* after fewer is answered 401 with the counter at their number plus one.  *)
WrongPassword(r) ==
    ~Compare(r.body.pw, KvGet(users, r.body.user, Absent))

C35_FailuresInARow ==
    \A p \in Procs :
        (pc[p] = "done" /\ IsLogin(rq[p].req)) =>
            /\ resp[p].status = 200 =>
                  /\ AttemptsKey(rq[p].username) \notin DOMAIN users
                  /\ BlockKey(rq[p].username) \notin DOMAIN users
            /\ resp[p].status = 429 =>
                  rq[p].failsBefore >= LOGIN_ATTEMPT_LIMIT - 1
            /\ (WrongPassword(rq[p].req)
                  /\ rq[p].failsBefore < LOGIN_ATTEMPT_LIMIT - 1) =>
                  /\ resp[p].status = 401
                  /\ KvGet(users, AttemptsKey(rq[p].username), Absent).n
                        = rq[p].failsBefore + 1

C35_Witness ==
    \E p \in Procs :
        /\ pc[p] = "done" /\ IsLogin(rq[p].req)
        /\ rq[p].failsBefore = LOGIN_ATTEMPT_LIMIT - 1
        /\ resp[p].status = 200
        /\ AttemptsKey(rq[p].username) \notin DOMAIN users
        /\ Op("users.delete", AttemptsKey(rq[p].username)) \in Range(ops[p])

----------------------------------------------------------------------------
(* C36: the window of the failed-attempt counter slides.  Between requests *)
(* the counter of a username exists exactly when its latest counted        *)
(* failure is less than LOGIN_BLOCK_TTL seconds old; it then holds the     *)
(* number of counted failures that came in a row, each less than           *)
(* LOGIN_BLOCK_TTL after the one before, however long ago the first was,   *)
(* it expires LOGIN_BLOCK_TTL after the latest, and the block flag is set  *)
(* once that number is LOGIN_ATTEMPT_LIMIT.                                *)
RowAlive(u) == obs.run[u] > 0 /\ obs.now - obs.last[u] < LOGIN_BLOCK_TTL

C36_WindowSlides ==
    Quiet =>
        \A u \in Usernames :
            LET counter == KvGet(users, AttemptsKey(u), Absent)
            IN  /\ RowAlive(u) =>
                      /\ Payload(counter) = Count(obs.run[u])
                      /\ counter.left = LOGIN_BLOCK_TTL - (obs.now - obs.last[u])
                /\ ~RowAlive(u) => counter = Absent
                /\ (RowAlive(u) /\ obs.run[u] >= LOGIN_ATTEMPT_LIMIT) =>
                      BlockKey(u) \in DOMAIN users

(* Five requests, all counted failures in one row: the gaps are of at most *)
(* two steps of the clock, so a fifth failure eight steps after time 0 is  *)
(* 2400 s after the first, and it sets the block flag.                     *)
C36_Witness ==
    /\ Quiet /\ nreq = LOGIN_ATTEMPT_LIMIT
    /\ obs.run[Amy] = LOGIN_ATTEMPT_LIMIT
    /\ obs.last[Amy] = 8 * TickSeconds
    /\ obs.last[Amy] > LOGIN_BLOCK_TTL
    /\ BlockKey(Amy) \in DOMAIN users
    /\ resp[1].status = 429

----------------------------------------------------------------------------
(* The client's token storage (part_004) *)

(* localStorage 'baymax_token': no item, the JSON text of { token,         *)
(* createdAt }, or the bare text of a token.  fresh: createdAt is not more *)
(* than TOKEN_EXPIRY_DAYS old.                                             *)
StorageItem(kind, token, fresh) == [kind |-> kind, token |-> token, fresh |-> fresh]

NoItem == StorageItem("none", Absent, FALSE)

(* signup, login: setItem('baymax_token', JSON.stringify(tokenData)) *)
LoginItem(token, fresh) == StorageItem("json", token, fresh)

(* if (data.refreshToken) localStorage.setItem('baymax_token',             *)
(* data.refreshToken), in sendMessageToBaymax and in clearBaymaxSession    *)
StoreRefreshToken(item, res) ==
    IF Ok(res) /\ res.refreshToken # Absent
    THEN StorageItem("raw", res.refreshToken, FALSE)
    ELSE item

(* getToken: <<what it returns (Absent for null), the item it leaves>>.    *)
(* JSON.parse of the bare text of a JWT throws.                            *)
getToken(item) ==
    CASE item.kind = "none" -> <<Absent, item>>
      [] item.kind = "raw" -> <<Absent, NoItem>>
      [] item.kind = "json" /\ ~item.fresh -> <<Absent, NoItem>>
      [] OTHER -> <<item.token, item>>

----------------------------------------------------------------------------
(* C37: in the username/password client, after sendMessageToBaymax has     *)
(* received a 200 response that carries a refreshToken, the next           *)
(* getToken() of a user who was logged in returns that token.              *)
C37_RefreshedTokenIsUsed ==
    \A p \in Procs :
        (pc[p] = "done" /\ IsChatTurn(variant, rq[p].req)
           /\ resp[p].status = 200 /\ resp[p].refreshToken # Absent) =>
            LET before == LoginItem(TokenFor(rq[p].username, 0), TRUE)
                after == StoreRefreshToken(before, WorkerResponseShape(resp[p]))
            IN  /\ getToken(before)[1] # Absent
                /\ getToken(after)[1] = resp[p].refreshToken

----------------------------------------------------------------------------
(* C38: a chat request is answered by the first check it fails in the      *)
(* order method (405), bearer token (401), body parses (400), userMessage  *)
(* present (400), userMessage length (413), sessionId valid (400), session *)
(* ownership (403), the last two in the owner-tag worker; a request that   *)
(* fails a check makes no store access and no upstream call that comes     *)
(* after that check.                                                       *)
Failure(status, error) == [status |-> status, error |-> error]

FirstFailure(v, r, store) ==
    CASE r.method # "POST" -> Failure(405, "Only POST allowed")
      [] r.method = "POST" /\ ~r.token.present ->
            Failure(401, "Unauthorized: missing token")
      [] r.method = "POST" /\ r.token.present /\ BadToken(r.token) ->
            Failure(401, "Unauthorized")
      [] OTHER ->
            IF r.body.shape # "object" \/ Oversized(r.body)
            THEN Failure(400, "Invalid JSON")
            ELSE IF r.body.msg.kind # "text"
            THEN Failure(400, "Missing userMessage")
            ELSE IF r.body.msg.len > USER_MESSAGE_LIMIT
            THEN Failure(413, "userMessage too long")
            ELSE IF v = "owner" /\ r.body.sid.kind # "ok"
            THEN Failure(400, "Missing or invalid sessionId")
            ELSE IF v = "owner" /\ TaggedForOther(store, r.body.sid.id, r.token.who)
            THEN Failure(403, "Unauthorized access to history")
            ELSE Failure(0, "")

(* The store accesses that come before the check that answers with status  *)
(* s: the put of a replacement token comes after the token check, the read *)
(* of the owner tag after the sessionId check                              *)
OpsBefore(s, r) ==
    CASE s \in {405, 401} -> {}
      [] s \in {400, 413} -> {Op("users.put", TokenKey(r.token.who))}
      [] OTHER -> {Op("users.put", TokenKey(r.token.who)),
                   Op("hist.get", OwnerKey(r.body.sid.id))}

C38_FirstFailingCheckAnswers ==
    \A p \in Procs :
        (pc[p] # "idle" /\ rq[p].req.path = "/"
           /\ OriginAllowed(variant, rq[p].req.origin)) =>
            LET failure == FirstFailure(variant, rq[p].req, rq[p].pre)
            IN  IF failure.status # 0
                THEN /\ Range(ops[p]) \subseteq OpsBefore(failure.status, rq[p].req)
                     /\ pc[p] = "done" =>
                           /\ resp[p].status = failure.status
                           /\ resp[p].error = failure.error
                ELSE pc[p] = "done" => resp[p].status \in {200, 500, 502}

C38_Witness ==
    \E p \in Procs :
        /\ variant = "owner" /\ pc[p] = "done"
        /\ rq[p].req.token = Token("ok", Bob, TOKEN_REFRESH_THRESHOLD - 1)
        /\ rq[p].req.body.msg = MsgField("text", USER_MESSAGE_LIMIT + 1)
        /\ rq[p].req.body.sid = SidField("long", NoName)
        /\ Len(Stored(hist, S1)) >= 3
        /\ resp[p].status = 413
        /\ Range(ops[p]) = {Op("users.put", TokenKey(Bob))}

----------------------------------------------------------------------------
(* C39: every request that the worker has begun to handle is eventually    *)
(* answered, whatever the vector API and the model API do, store           *)
(* operations returning.                                                   *)
C39_EveryRequestEnds ==
    \A p \in Procs : (pc[p] \notin {"idle", "done"}) ~> (pc[p] = "done")

=============================================================================
